---- MODULE Spec2Model ----
(***************************************************************************)
(* Model of ext_args (src/ext_args.h): a schema string is compiled by a    *)
(* backtracking recursive-descent parser, the argument vector is lexed and *)
(* parsed, the occurrences are validated against the schema and the values *)
(* are bound to the caller's variables.                                    *)
(*                                                                         *)
(* Strings are sequences of one-character strings; a C pointer into a      *)
(* string is a position in it, the terminating NUL being the position one  *)
(* past the end.  C array indices are kept 0-based in the index fields     *)
(* (groupIdx, idx); the arrays themselves are 1-based sequences.           *)
(* malloc/realloc/calloc are taken to succeed.                             *)
(***************************************************************************)
EXTENDS Integers, Sequences, FiniteSets, TLC

\* ------------------------------------------------------------------------
\* Enumerations of the source
\* ------------------------------------------------------------------------
EXT_ARGS_ERR_LEX == 1
EXT_ARGS_ERR_PARSE == 2
EXT_ARGS_ERR_MEM == 3

EXT_ARGS_TOK_EOI == 0
EXT_ARGS_TOK_LBRAK == 1
EXT_ARGS_TOK_RBRAK == 2
EXT_ARGS_TOK_PIPE == 3
EXT_ARGS_TOK_EQL == 4
EXT_ARGS_TOK_NAME == 5
EXT_ARGS_TOK_FLOAT_ARG == 6
EXT_ARGS_TOK_DOTS == 7

EXT_ARGS_ARG_POS == 0
EXT_ARGS_ARG_GROUP == 1

EXT_ARGS_UTOK_FLOAT == 0
EXT_ARGS_UTOK_EQL == 1
EXT_ARGS_UTOK_VAL == 2
EXT_ARGS_UTOK_EOI == 3

EXT_ARGS_NO_ERR == 0
EXT_ARGS_NO_MEM_ERR == 1
EXT_ARGS_SCHEMA_ERR == 2
EXT_ARGS_INPUT_ERR == 3

\* The null pointer, and the address of the static string "(NO VALUE)".
\* A pointer into the argument vector is a record [arg, off]; the three
\* kinds of pointer are distinct by construction of the address space.
NULL == [null |-> TRUE]
ext_args_no_value == [static |-> "(NO VALUE)"]

EXT_ARGS_TokTypeToName(type) ==
  CASE type = EXT_ARGS_TOK_EOI -> "EOI"
    [] type = EXT_ARGS_TOK_LBRAK -> "LBRAK"
    [] type = EXT_ARGS_TOK_RBRAK -> "RBRAK"
    [] type = EXT_ARGS_TOK_PIPE -> "PIPE"
    [] type = EXT_ARGS_TOK_EQL -> "EQL"
    [] type = EXT_ARGS_TOK_NAME -> "NAME"
    [] type = EXT_ARGS_TOK_FLOAT_ARG -> "FLOAT_ARG"
    [] type = EXT_ARGS_TOK_DOTS -> "DOTS"
    [] OTHER -> "UNKNOWN"

\* ------------------------------------------------------------------------
\* Characters
\* ------------------------------------------------------------------------
NUL == ""
LowerCase == {"a","b","c","d","e","f","g","h","i","j","k","l","m",
              "n","o","p","q","r","s","t","u","v","w","x","y","z"}
UpperCase == {"A","B","C","D","E","F","G","H","I","J","K","L","M",
              "N","O","P","Q","R","S","T","U","V","W","X","Y","Z"}
Digits == {"0","1","2","3","4","5","6","7","8","9"}
NameStart == LowerCase \cup UpperCase
NameChars == LowerCase \cup UpperCase \cup Digits \cup {"_", "-"}
Spaces == {" ", "\n", "\t", "\r"}

\* *p for a pointer p into the string s
At(s, p) == IF p >= 1 /\ p <= Len(s) THEN s[p] ELSE NUL

\* the C string that starts at p
StrFrom(s, p) == SubSeq(s, p, Len(s))

\* while(*c in set) c++
RECURSIVE SkipChars(_, _, _)
SkipChars(s, p, set) ==
  IF At(s, p) \in set THEN SkipChars(s, p + 1, set) ELSE p

\* ------------------------------------------------------------------------
\* Schema tokenizer.  A parser record prs has the source string src and
\* the cursor str, besides the fields of EXT_ARGS_Parser; jmp is the value
\* a longjmp has delivered to setjmp (0: none).  Every function returns
\* [ok, prs]: the C return value and the parser after the call.
\* ------------------------------------------------------------------------
EXT_ARGS_CurrentPos(prs) == prs.str

EXT_ARGS_Rollback(prs, str) == [prs EXCEPT !.str = str]

EXT_ARGS_Consume(prs) == [prs EXCEPT !.str = @ + 1]

EXT_ARGS_Distance(prs, str) ==
  IF str >= prs.str THEN str - prs.str ELSE prs.str - str

EXT_ARGS_Char(c, prs) ==
  IF At(prs.src, prs.str) = c
  THEN [ok |-> TRUE, prs |-> EXT_ARGS_Consume(prs)]
  ELSE [ok |-> FALSE, prs |-> prs]

EXT_ARGS_Name(prs) ==
  LET c0 == EXT_ARGS_CurrentPos(prs)
      c == SkipChars(prs.src, c0 + 1, NameChars)
  IN IF At(prs.src, c0) \notin NameStart
     THEN [ok |-> FALSE, prs |-> prs]
     ELSE IF c = prs.str
     THEN [ok |-> FALSE, prs |-> prs]
     ELSE IF At(prs.src, c - 1) = "-"
     THEN [ok |-> FALSE, prs |-> prs]
     ELSE [ok |-> TRUE, prs |-> EXT_ARGS_Rollback(prs, c)]

EXT_ARGS_ArgFloat(prs) ==
  LET bk == EXT_ARGS_CurrentPos(prs)
      dashed == EXT_ARGS_Rollback(prs, SkipChars(prs.src, bk, {"-"}))
      d == EXT_ARGS_Distance(dashed, bk)
      n == EXT_ARGS_Name(dashed)
  IN IF d < 1
     THEN [ok |-> FALSE, prs |-> EXT_ARGS_Rollback(prs, bk)]
     ELSE IF ~n.ok
     THEN [ok |-> FALSE, prs |-> EXT_ARGS_Rollback(prs, bk)]
     ELSE [ok |-> TRUE, prs |-> n.prs]

EXT_ARGS_Dots(prs) ==
  LET bk == EXT_ARGS_CurrentPos(prs)
      dotted == EXT_ARGS_Rollback(prs, SkipChars(prs.src, bk, {"."}))
  IN IF EXT_ARGS_Distance(dotted, bk) # 3
     THEN [ok |-> FALSE, prs |-> EXT_ARGS_Rollback(prs, bk)]
     ELSE [ok |-> TRUE, prs |-> dotted]

EXT_ARGS_SkipSpaces(prs) ==
  LET bk == EXT_ARGS_CurrentPos(prs)
      skipped == EXT_ARGS_Rollback(prs, SkipChars(prs.src, bk, Spaces))
  IN IF EXT_ARGS_Distance(skipped, bk) = 0
     THEN [ok |-> FALSE, prs |-> skipped]
     ELSE [ok |-> TRUE, prs |-> skipped]

Tok(type, str, len) == [type |-> type, str |-> str, len |-> len]

\* The token at the cursor once the white space is skipped.
NextTokAt(prs) ==
  IF At(prs.src, prs.str) = NUL
  THEN [tok |-> Tok(EXT_ARGS_TOK_EOI, 0, 0), prs |-> prs]
  ELSE IF EXT_ARGS_Char("[", prs).ok
  THEN [tok |-> Tok(EXT_ARGS_TOK_LBRAK, prs.str, 1), prs |-> EXT_ARGS_Consume(prs)]
  ELSE IF EXT_ARGS_Char("]", prs).ok
  THEN [tok |-> Tok(EXT_ARGS_TOK_RBRAK, prs.str, 1), prs |-> EXT_ARGS_Consume(prs)]
  ELSE IF EXT_ARGS_Char("|", prs).ok
  THEN [tok |-> Tok(EXT_ARGS_TOK_PIPE, prs.str, 1), prs |-> EXT_ARGS_Consume(prs)]
  ELSE IF EXT_ARGS_Char("=", prs).ok
  THEN [tok |-> Tok(EXT_ARGS_TOK_EQL, prs.str, 1), prs |-> EXT_ARGS_Consume(prs)]
  ELSE IF EXT_ARGS_Name(prs).ok
  THEN [tok |-> Tok(EXT_ARGS_TOK_NAME, prs.str,
                    EXT_ARGS_Distance(EXT_ARGS_Name(prs).prs, prs.str)),
        prs |-> EXT_ARGS_Name(prs).prs]
  ELSE IF EXT_ARGS_ArgFloat(prs).ok
  THEN [tok |-> Tok(EXT_ARGS_TOK_FLOAT_ARG, prs.str,
                    EXT_ARGS_Distance(EXT_ARGS_ArgFloat(prs).prs, prs.str)),
        prs |-> EXT_ARGS_ArgFloat(prs).prs]
  ELSE IF EXT_ARGS_Dots(prs).ok
  THEN [tok |-> Tok(EXT_ARGS_TOK_DOTS, prs.str,
                    EXT_ARGS_Distance(EXT_ARGS_Dots(prs).prs, prs.str)),
        prs |-> EXT_ARGS_Dots(prs).prs]
  ELSE [tok |-> Tok(EXT_ARGS_TOK_EOI, 0, 0),
        prs |-> [prs EXCEPT !.errStart = prs.str, !.jmp = EXT_ARGS_ERR_LEX]]

\* Returns [tok, prs]; a lexing error is prs.jmp = EXT_ARGS_ERR_LEX.
EXT_ARGS_NextTok(prs) == NextTokAt(EXT_ARGS_SkipSpaces(prs).prs)

\* ------------------------------------------------------------------------
\* Schema parser
\*   synopsis: decl+ DOTS? EOI
\*   decl: arg | LBR arg RBR
\*   arg: NAME | FLOAT_ARG (PIPE FLOAT_ARG)* (assignval DOTS? | LBR assignval RBR)?
\*   assignval: EQL NAME
\* A function of the source is a chain of definitions: each step is
\* handed the result of the call before it.  A result r with
\* r.prs.jmp # 0 is a longjmp on its way to setjmp.
\* ------------------------------------------------------------------------
Jumped(r) == r.prs.jmp # 0

Failed(prs) == [ok |-> FALSE, prs |-> prs]

Matched(prs) == [ok |-> TRUE, prs |-> prs]

\* EXT_ARGS_Match after its call of EXT_ARGS_NextTok, which returned r
MatchTok(tokType, bk, r, isMandatory) ==
  IF Jumped(r) THEN Failed(r.prs)
  ELSE IF r.tok.type = tokType
  THEN Matched([r.prs EXCEPT !.lastMatchTok = r.tok])
  ELSE IF isMandatory
  THEN Failed([r.prs EXCEPT !.unexpTokType = r.tok.type,
                            !.expTokType = tokType,
                            !.errStart = bk,
                            !.jmp = EXT_ARGS_ERR_PARSE])
  ELSE Failed(EXT_ARGS_Rollback(r.prs, bk))

EXT_ARGS_Match(tokType, prs, isMandatory) ==
  MatchTok(tokType, EXT_ARGS_CurrentPos(prs), EXT_ARGS_NextTok(prs), isMandatory)

\* EXT_ARGS_AssignVal after the match n of NAME
AssignValName(bk, n) ==
  IF Jumped(n) THEN n
  ELSE IF ~n.ok THEN Failed(EXT_ARGS_Rollback(n.prs, bk))
  ELSE n

\* EXT_ARGS_AssignVal after the match e of EQL
AssignValEql(bk, e, isMandatory) ==
  IF ~e.ok THEN e
  ELSE AssignValName(bk, EXT_ARGS_Match(EXT_ARGS_TOK_NAME, e.prs, isMandatory))

EXT_ARGS_AssignVal(prs, isMandatory) ==
  AssignValEql(EXT_ARGS_CurrentPos(prs),
               EXT_ARGS_Match(EXT_ARGS_TOK_EQL, prs, isMandatory), isMandatory)

EXT_ARGS_SavePosArg(prs) ==
  [prs EXCEPT
     !.sequence = Append(@, [type |-> EXT_ARGS_ARG_POS, idx |-> Len(prs.posArgs)]),
     !.posArgs = Append(@, [isOptional |-> prs.parsingStates.isOptional,
                            str |-> prs.lastMatchTok.str,
                            len |-> prs.lastMatchTok.len,
                            varPtr |-> NULL])]

\* Returns the parser; the C return value (the old floatsCount) is read
\* by the caller from the parser before the call.
EXT_ARGS_SaveFloatArg(prs, groupIdx) ==
  [prs EXCEPT
     !.floats = Append(@, [str |-> prs.lastMatchTok.str,
                           len |-> prs.lastMatchTok.len,
                           groupIdx |-> groupIdx])]

\* the save of a group that does not record it in the sequence
EXT_ARGS_SaveGroup_NoSequence(prs, hasAssign, isRepeating, aliasCount) ==
  [prs EXCEPT
     !.groups = Append(@, [isOptional |-> prs.parsingStates.isOptional,
                           hasAssign |-> hasAssign,
                           isAssignOptional |-> FALSE,
                           isRepeating |-> isRepeating,
                           aliasCount |-> aliasCount,
                           varPtr |-> NULL,
                           isUsed |-> FALSE,
                           ary |-> <<>>,
                           aryCount |-> 0])]

EXT_ARGS_SaveGroup(prs, hasAssign, isRepeating, aliasCount) ==
  [prs EXCEPT
     !.sequence = Append(@, [type |-> EXT_ARGS_ARG_GROUP, idx |-> Len(prs.groups)]),
     !.groups = Append(@, [isOptional |-> prs.parsingStates.isOptional,
                           hasAssign |-> hasAssign,
                           isAssignOptional |-> FALSE,
                           isRepeating |-> isRepeating,
                           aliasCount |-> aliasCount,
                           varPtr |-> NULL,
                           isUsed |-> FALSE,
                           ary |-> <<>>,
                           aryCount |-> 0])]

\* while(EXT_ARGS_Match(PIPE)) { ... } of EXT_ARGS_Arg.  Returns
\* [ok, prs, aliasCount]; ok = FALSE is the "return false" inside the loop
\* (or a longjmp, when prs.jmp # 0).
RECURSIVE ArgAliases(_, _, _, _, _, _)

\* the loop body after the match f of the alias
ArgAliasesFloat(f, isMandatory, groupIdx, floatBk, bk, aliasCount) ==
  IF Jumped(f)
  THEN [ok |-> FALSE, prs |-> f.prs, aliasCount |-> aliasCount]
  ELSE IF ~f.ok
  THEN [ok |-> FALSE,
        prs |-> [EXT_ARGS_Rollback(f.prs, bk) EXCEPT !.floats = SubSeq(@, 1, floatBk)],
        aliasCount |-> aliasCount]
  ELSE ArgAliases(EXT_ARGS_SaveFloatArg(f.prs, groupIdx), isMandatory,
                  groupIdx, floatBk, bk, aliasCount + 1)

\* the loop condition: the match p of PIPE
ArgAliasesPipe(p, isMandatory, groupIdx, floatBk, bk, aliasCount) ==
  IF Jumped(p)
  THEN [ok |-> FALSE, prs |-> p.prs, aliasCount |-> aliasCount]
  ELSE IF ~p.ok
  THEN [ok |-> TRUE, prs |-> p.prs, aliasCount |-> aliasCount]
  ELSE ArgAliasesFloat(EXT_ARGS_Match(EXT_ARGS_TOK_FLOAT_ARG, p.prs, isMandatory),
                       isMandatory, groupIdx, floatBk, bk, aliasCount)

ArgAliases(prs, isMandatory, groupIdx, floatBk, bk, aliasCount) ==
  ArgAliasesPipe(EXT_ARGS_Match(EXT_ARGS_TOK_PIPE, prs, FALSE),
                 isMandatory, groupIdx, floatBk, bk, aliasCount)

\* The tail of EXT_ARGS_Arg after the group is saved without an
\* assignment: the optional value form LBR assignval RBR.
ArgOptionalRbrak(bk, rb, groupIdx) ==
  IF Jumped(rb) THEN rb
  ELSE IF ~rb.ok THEN Matched(EXT_ARGS_Rollback(rb.prs, bk))
  ELSE Matched([rb.prs EXCEPT !.groups[groupIdx + 1].hasAssign = TRUE,
                              !.groups[groupIdx + 1].isAssignOptional = TRUE])

\* the optional value form that takes an ellipsis before the RBR
ArgOptionalAssignVal_Dots(bk, av, groupIdx) ==
  LET dt == EXT_ARGS_Match(EXT_ARGS_TOK_DOTS, av.prs, FALSE)
      rep == IF dt.ok THEN [dt.prs EXCEPT !.groups[groupIdx + 1].isRepeating = TRUE]
             ELSE dt.prs
  IN IF Jumped(av) THEN av
     ELSE IF ~av.ok THEN Matched(EXT_ARGS_Rollback(av.prs, bk))
     ELSE IF Jumped(dt) THEN dt
     ELSE ArgOptionalRbrak(bk, EXT_ARGS_Match(EXT_ARGS_TOK_RBRAK, rep, FALSE), groupIdx)

ArgOptionalAssignVal(bk, av, groupIdx) ==
  IF Jumped(av) THEN av
  ELSE IF ~av.ok THEN Matched(EXT_ARGS_Rollback(av.prs, bk))
  ELSE ArgOptionalRbrak(bk, EXT_ARGS_Match(EXT_ARGS_TOK_RBRAK, av.prs, FALSE), groupIdx)

ArgOptionalLbrak(bk, lb, groupIdx) ==
  IF Jumped(lb) THEN lb
  ELSE IF ~lb.ok THEN Matched(EXT_ARGS_Rollback(lb.prs, bk))
  ELSE ArgOptionalAssignVal(bk, EXT_ARGS_AssignVal(lb.prs, FALSE), groupIdx)

ArgOptionalAssign(prs, groupIdx) ==
  ArgOptionalLbrak(EXT_ARGS_CurrentPos(prs),
                   EXT_ARGS_Match(EXT_ARGS_TOK_LBRAK, prs, FALSE), groupIdx)

\* EXT_ARGS_Arg after the match dt of DOTS behind an assignment
ArgRepeating(dt, aliasCount) ==
  IF Jumped(dt) THEN dt
  ELSE Matched(EXT_ARGS_SaveGroup(dt.prs, TRUE, dt.ok, aliasCount))

\* the assignment that leaves an ellipsis after it to the synopsis
ArgAssign_NoDots(av, aliasCount, groupIdx) ==
  IF Jumped(av) THEN av
  ELSE IF av.ok
  THEN Matched(EXT_ARGS_SaveGroup(av.prs, TRUE, FALSE, aliasCount))
  ELSE ArgOptionalAssign(EXT_ARGS_SaveGroup(av.prs, FALSE, FALSE, aliasCount), groupIdx)

\* EXT_ARGS_Arg after the first call av of EXT_ARGS_AssignVal
ArgAssign(av, aliasCount, groupIdx) ==
  IF Jumped(av) THEN av
  ELSE IF av.ok
  THEN ArgRepeating(EXT_ARGS_Match(EXT_ARGS_TOK_DOTS, av.prs, FALSE), aliasCount)
  ELSE ArgOptionalAssign(EXT_ARGS_SaveGroup(av.prs, FALSE, FALSE, aliasCount), groupIdx)

\* EXT_ARGS_Arg after the alias loop, which returned al
ArgGroup(al, groupIdx) ==
  IF ~al.ok THEN Failed(al.prs)
  ELSE ArgAssign(EXT_ARGS_AssignVal(al.prs, FALSE), al.aliasCount, groupIdx)

\* EXT_ARGS_Arg after the first alias is saved
ArgSaved(saved, isMandatory, groupIdx, floatBk) ==
  ArgGroup(ArgAliases(saved, isMandatory, groupIdx, floatBk,
                      EXT_ARGS_CurrentPos(saved), 1), groupIdx)

\* EXT_ARGS_Arg after the match fl of the first FLOAT_ARG
ArgFloatArg(fl, isMandatory) ==
  IF ~fl.ok THEN fl
  ELSE ArgSaved(EXT_ARGS_SaveFloatArg(fl.prs, Len(fl.prs.groups)), isMandatory,
                Len(fl.prs.groups), Len(fl.prs.floats))

\* EXT_ARGS_Arg after the match nm of NAME
ArgName(nm, isMandatory) ==
  IF Jumped(nm) THEN nm
  ELSE IF nm.ok THEN Matched(EXT_ARGS_SavePosArg(nm.prs))
  ELSE ArgFloatArg(EXT_ARGS_Match(EXT_ARGS_TOK_FLOAT_ARG, nm.prs, isMandatory),
                   isMandatory)

EXT_ARGS_Arg(prs, isMandatory) ==
  ArgName(EXT_ARGS_Match(EXT_ARGS_TOK_NAME, prs, FALSE), isMandatory)

\* EXT_ARGS_Decl after the match rb of the closing bracket
DeclRbrak(bk, rb) ==
  IF Jumped(rb) THEN rb
  ELSE IF ~rb.ok THEN Failed(EXT_ARGS_Rollback(rb.prs, bk))
  ELSE rb

\* the declaration whose closing bracket is a mandatory match
DeclOptionalArg_Mandatory(bk, a2, isMandatory) ==
  IF Jumped(a2) THEN a2
  ELSE IF ~a2.ok THEN Failed(EXT_ARGS_Rollback(a2.prs, bk))
  ELSE DeclRbrak(bk, EXT_ARGS_Match(EXT_ARGS_TOK_RBRAK, a2.prs, TRUE))

\* EXT_ARGS_Decl after the bracketed call a2 of EXT_ARGS_Arg
DeclOptionalArg(bk, a2, isMandatory) ==
  IF Jumped(a2) THEN a2
  ELSE IF ~a2.ok THEN Failed(EXT_ARGS_Rollback(a2.prs, bk))
  ELSE DeclRbrak(bk, EXT_ARGS_Match(EXT_ARGS_TOK_RBRAK, a2.prs, isMandatory))

\* EXT_ARGS_Decl after the match lb of the opening bracket
DeclLbrak(bk, lb, isMandatory) ==
  IF ~lb.ok THEN lb
  ELSE DeclOptionalArg(bk,
         EXT_ARGS_Arg([lb.prs EXCEPT !.parsingStates.isOptional = TRUE], isMandatory),
         isMandatory)

\* EXT_ARGS_Decl after the first call a1 of EXT_ARGS_Arg
DeclArg(a1, isMandatory) ==
  IF Jumped(a1) THEN a1
  ELSE IF a1.ok THEN a1
  ELSE DeclLbrak(EXT_ARGS_CurrentPos(a1.prs),
                 EXT_ARGS_Match(EXT_ARGS_TOK_LBRAK, a1.prs, isMandatory), isMandatory)

EXT_ARGS_Decl(prs, isMandatory) ==
  DeclArg(EXT_ARGS_Arg([prs EXCEPT !.parsingStates.isOptional = FALSE], FALSE),
          isMandatory)

\* while(EXT_ARGS_Decl(prs, false));
RECURSIVE SynopsisDecls(_)

SynopsisDecl(d) == IF Jumped(d) \/ ~d.ok THEN d.prs ELSE SynopsisDecls(d.prs)

SynopsisDecls(prs) == SynopsisDecl(EXT_ARGS_Decl(prs, FALSE))

\* the end of the synopsis that does not enable the variadic capture
SynopsisDots_NoCapture(dt) ==
  IF Jumped(dt) THEN dt.prs
  ELSE EXT_ARGS_Match(EXT_ARGS_TOK_EOI, dt.prs, TRUE).prs

\* EXT_ARGS_Synopsis after the match dt of the trailing DOTS
SynopsisDots(dt) ==
  IF Jumped(dt) THEN dt.prs
  ELSE IF dt.ok
  THEN EXT_ARGS_Match(EXT_ARGS_TOK_EOI,
                      [dt.prs EXCEPT !.varPosArgsEnabled = TRUE], TRUE).prs
  ELSE EXT_ARGS_Match(EXT_ARGS_TOK_EOI, dt.prs, TRUE).prs

\* EXT_ARGS_Synopsis after the loop over the declarations
SynopsisEnd(decls) ==
  IF decls.jmp # 0 THEN decls
  ELSE SynopsisDots(EXT_ARGS_Match(EXT_ARGS_TOK_DOTS, decls, FALSE))

\* a synopsis whose first declaration is mandatory
EXT_ARGS_Synopsis_DeclFirst(prs) ==
  SynopsisEnd(SynopsisDecl(EXT_ARGS_Decl(prs, TRUE)))

\* Returns the parser; prs.jmp # 0 when a longjmp left the function.
EXT_ARGS_Synopsis(prs) == SynopsisEnd(SynopsisDecls(prs))

\* EXT_ARGS_Parser prs = {.str = fmt}
NewParser(fmt) ==
  [src |-> fmt, str |-> 1, jmp |-> 0, errStart |-> 0,
   expTokType |-> 0, unexpTokType |-> 0,
   parsingStates |-> [isOptional |-> FALSE],
   lastMatchTok |-> Tok(0, 0, 0),
   posArgs |-> <<>>, groups |-> <<>>, floats |-> <<>>, sequence |-> <<>>,
   varPosArgsEnabled |-> FALSE, varPosrArgsVarPtr |-> NULL]

\* ------------------------------------------------------------------------
\* User input.  A pointer into the argument vector av is [arg, off]: the
\* raw argument argv[arg] (argv[0], the program name, is never read) and
\* the 0-based offset in it.
\* ------------------------------------------------------------------------
Ptr(arg, off) == [arg |-> arg, off |-> off]

\* the C string a pointer into the argument vector av points to
CStr(av, p) == StrFrom(av[p.arg], p.off + 1)

\* the first n characters of a string, for "%.*s" and strncmp
Take(s, n) == SubSeq(s, 1, IF n < Len(s) THEN n ELSE Len(s))

UTok(type, str, len) == [type |-> type, str |-> str, len |-> len]

FmtErr(fmt, args) == [fmt |-> fmt, args |-> args]

\* The body of the lexing loop for the raw argument argv[i], after the
\* call fl of EXT_ARGS_ArgFloat on it.  Returns [tokens, err, brk]: the
\* token array, the error message of a "goto done" (NULL when none), and
\* whether the loop is left by "break".
\* the lexing that takes a flag after a plain value for a plain value
LexArgumentFloat_FlagsFirst(av, i, tokens, fl) ==
  LET bk == av[i]
      eq == EXT_ARGS_Char("=", fl.prs)
      str == EXT_ARGS_CurrentPos(eq.prs)
      float == UTok(EXT_ARGS_UTOK_FLOAT, Ptr(i, 0), EXT_ARGS_Distance(fl.prs, 1))
      eql == UTok(EXT_ARGS_UTOK_EQL, Ptr(i, str - 2), 0)
      val == UTok(EXT_ARGS_UTOK_VAL, Ptr(i, str - 1), 0)
      assign == IF At(bk, str) # NUL THEN <<eql, val>> ELSE <<eql>>
      d1 == EXT_ARGS_Char("-", fl.prs)
      d2 == EXT_ARGS_Char("-", d1.prs)
      plain == Len(tokens) >= 1 /\ tokens[Len(tokens)] = UTok(EXT_ARGS_UTOK_VAL, Ptr(i - 1, 0), 0)
      ret(toks, err, brk) == [tokens |-> tokens \o toks, err |-> err, brk |-> brk]
  IN IF fl.ok /\ ~plain
     THEN IF eq.ok
          THEN ret(<<float>> \o assign, NULL, FALSE)
          ELSE IF At(bk, str) # NUL
          THEN ret(<<float>>, FmtErr("Ambiguous argument \"%s\"", <<bk>>), FALSE)
          ELSE ret(<<float>>, NULL, FALSE)
     ELSE IF ~fl.ok /\ eq.ok
     THEN ret(assign, NULL, FALSE)
     ELSE IF ~fl.ok /\ d1.ok /\ d2.ok
     THEN ret(<<UTok(EXT_ARGS_UTOK_EOI, NULL, 0)>>, NULL, TRUE)
     ELSE ret(<<UTok(EXT_ARGS_UTOK_VAL, Ptr(i, 0), 0)>>, NULL, FALSE)

LexArgumentFloat(av, i, tokens, fl) ==
  LET bk == av[i]
      eq == EXT_ARGS_Char("=", fl.prs)
      str == EXT_ARGS_CurrentPos(eq.prs)
      float == UTok(EXT_ARGS_UTOK_FLOAT, Ptr(i, 0), EXT_ARGS_Distance(fl.prs, 1))
      eql == UTok(EXT_ARGS_UTOK_EQL, Ptr(i, str - 2), 0)
      val == UTok(EXT_ARGS_UTOK_VAL, Ptr(i, str - 1), 0)
      assign == IF At(bk, str) # NUL THEN <<eql, val>> ELSE <<eql>>
      d1 == EXT_ARGS_Char("-", fl.prs)
      d2 == EXT_ARGS_Char("-", d1.prs)
      ret(toks, err, brk) == [tokens |-> tokens \o toks, err |-> err, brk |-> brk]
  IN IF fl.ok
     THEN IF eq.ok
          THEN ret(<<float>> \o assign, NULL, FALSE)
          ELSE IF At(bk, str) # NUL
          THEN ret(<<float>>, FmtErr("Ambiguous argument \"%s\"", <<bk>>), FALSE)
          ELSE ret(<<float>>, NULL, FALSE)
     ELSE IF eq.ok
     THEN ret(assign, NULL, FALSE)
     ELSE IF d1.ok /\ d2.ok
     THEN ret(<<UTok(EXT_ARGS_UTOK_EOI, NULL, 0)>>, NULL, TRUE)
     ELSE ret(<<UTok(EXT_ARGS_UTOK_VAL, Ptr(i, 0), 0)>>, NULL, FALSE)

LexArgument(av, i, tokens) ==
  LexArgumentFloat(av, i, tokens, EXT_ARGS_ArgFloat([src |-> av[i], str |-> 1]))

\* for(int i = 1; i < argc; i++) { ... }.  Returns [tokens, err].
RECURSIVE LexLoop(_, _, _)

\* a loop that is not left at the terminator
LexLoopNext_NoBreak(av, i, r) ==
  IF r.err # NULL THEN [tokens |-> r.tokens, err |-> r.err]
  ELSE LexLoop(av, i + 1, r.tokens)

LexLoopNext(av, i, r) ==
  IF r.err # NULL \/ r.brk THEN [tokens |-> r.tokens, err |-> r.err]
  ELSE LexLoop(av, i + 1, r.tokens)

LexLoop(av, i, tokens) ==
  IF i > Len(av) THEN [tokens |-> tokens, err |-> NULL]
  ELSE LexLoopNext(av, i, LexArgument(av, i, tokens))

\* the implicit end-of-input token after the loop
LexEnd(r) ==
  IF r.err # NULL THEN r
  ELSE IF Len(r.tokens) = 0 \/ r.tokens[Len(r.tokens)].type # EXT_ARGS_UTOK_EOI
  THEN [tokens |-> Append(r.tokens, UTok(EXT_ARGS_UTOK_EOI, NULL, 0)), err |-> NULL]
  ELSE r

\* The lexing of the whole vector.
Lex(av) == LexEnd(LexLoop(av, 1, <<>>))

\* The parsing loop over the tokens; i is the C index (tokens[i] is
\* tokens[i + 1] here).  Returns [floats, posArgs, err].
RECURSIVE ParseLoop(_, _, _, _, _)
\* the loop that steps over an equals token no flag precedes
ParseLoop_SkipEql(av, tokens, i, floats, posArgs) ==
  LET t(k) == tokens[k + 1]
      arg == [str |-> t(i).str, len |-> t(i).len, assignVal |-> NULL]
      ret(err) == [floats |-> floats, posArgs |-> posArgs, err |-> err]
  IN IF t(i).type = EXT_ARGS_UTOK_EOI THEN ret(NULL)
     ELSE IF t(i).type = EXT_ARGS_UTOK_FLOAT
     THEN IF t(i + 1).type = EXT_ARGS_UTOK_EQL
          THEN IF t(i + 2).type # EXT_ARGS_UTOK_VAL
               THEN [floats |-> Append(floats, arg), posArgs |-> posArgs,
                     err |-> FmtErr("A value expected \"%s\"",
                                    <<CStr(av, t(i).str)>>)]
               ELSE ParseLoop(av, tokens, i + 3,
                              Append(floats, [arg EXCEPT !.assignVal = t(i + 2).str]),
                              posArgs)
          ELSE ParseLoop(av, tokens, i + 1, Append(floats, arg), posArgs)
     ELSE IF t(i).type = EXT_ARGS_UTOK_VAL
     THEN ParseLoop(av, tokens, i + 1, floats, Append(posArgs, t(i).str))
     ELSE ParseLoop(av, tokens, i + 1, floats, posArgs)

ParseLoop(av, tokens, i, floats, posArgs) ==
  LET t(k) == tokens[k + 1]
      arg == [str |-> t(i).str, len |-> t(i).len, assignVal |-> NULL]
      ret(err) == [floats |-> floats, posArgs |-> posArgs, err |-> err]
  IN IF t(i).type = EXT_ARGS_UTOK_EOI THEN ret(NULL)
     ELSE IF t(i).type = EXT_ARGS_UTOK_FLOAT
     THEN IF t(i + 1).type = EXT_ARGS_UTOK_EQL
          THEN IF t(i + 2).type # EXT_ARGS_UTOK_VAL
               THEN [floats |-> Append(floats, arg), posArgs |-> posArgs,
                     err |-> FmtErr("A value expected \"%s\"",
                                    <<CStr(av, t(i).str)>>)]
               ELSE ParseLoop(av, tokens, i + 3,
                              Append(floats, [arg EXCEPT !.assignVal = t(i + 2).str]),
                              posArgs)
          ELSE ParseLoop(av, tokens, i + 1, Append(floats, arg), posArgs)
     ELSE IF t(i).type = EXT_ARGS_UTOK_VAL
     THEN ParseLoop(av, tokens, i + 1, floats, Append(posArgs, t(i).str))
     ELSE ret(FmtErr("Unexpected input \"%s\"", <<CStr(av, t(i).str)>>))

\* The lookup loop over prs.floats: the 1-based index of the first alias
\* with uf's length and uf's characters, 0 when there is none.
RECURSIVE FindFloat(_, _, _, _)

\* the comparison without the test of the lengths
AliasMatches_Prefix(av, prs, uf, f) ==
  Take(CStr(av, uf.str), f.len) = Take(StrFrom(prs.src, f.str), f.len)

\* uf.len == f.len && strncmp(uf.str, f.str, f.len) == 0
AliasMatches(av, prs, uf, f) ==
  /\ uf.len = f.len
  /\ Take(CStr(av, uf.str), f.len) = Take(StrFrom(prs.src, f.str), f.len)

FindFloat(av, prs, uf, j) ==
  IF j > Len(prs.floats) THEN 0
  ELSE IF AliasMatches(av, prs, uf, prs.floats[j]) THEN j
  ELSE FindFloat(av, prs, uf, j + 1)

\* "%.*s", uf.len, uf.str
FloatText(av, uf) == Take(CStr(av, uf.str), uf.len)

\* "%.*s", fa.len, fa.str
AliasText(prs, fa) == Take(StrFrom(prs.src, fa.str), fa.len)

\* the validation that takes no value to be optional
ValidateFound_NoOptional(av, prs, uf, j) ==
  LET g == prs.floats[j].groupIdx + 1
      gr == prs.groups[g]
      ret(err) == [groups |-> prs.groups, err |-> err]
  IN IF j = 0
     THEN ret(FmtErr("Ambiguous argument \"%.*s\" provided", <<FloatText(av, uf)>>))
     ELSE IF gr.isUsed /\ ~gr.isRepeating
     THEN ret(FmtErr("Same arguments provided multiple times: %.*s",
                     <<FloatText(av, uf)>>))
     ELSE IF gr.hasAssign /\ uf.assignVal = NULL
     THEN ret(FmtErr("\"%.*s\" argument requires a value", <<FloatText(av, uf)>>))
     ELSE IF ~gr.hasAssign /\ uf.assignVal # NULL
     THEN ret(FmtErr("\"%.*s\" argument does not require a value",
                     <<FloatText(av, uf)>>))
     ELSE [groups |-> [prs.groups EXCEPT ![g].isUsed = TRUE], err |-> NULL]

\* the validation with the value rules ahead of the duplicate check
ValidateFound_ValueFirst(av, prs, uf, j) ==
  LET g == prs.floats[j].groupIdx + 1
      gr == prs.groups[g]
      ret(err) == [groups |-> prs.groups, err |-> err]
  IN IF j = 0
     THEN ret(FmtErr("Ambiguous argument \"%.*s\" provided", <<FloatText(av, uf)>>))
     ELSE IF gr.hasAssign /\ uf.assignVal = NULL /\ ~gr.isAssignOptional
     THEN ret(FmtErr("\"%.*s\" argument requires a value", <<FloatText(av, uf)>>))
     ELSE IF ~gr.hasAssign /\ uf.assignVal # NULL
     THEN ret(FmtErr("\"%.*s\" argument does not require a value",
                     <<FloatText(av, uf)>>))
     ELSE IF gr.isUsed /\ ~gr.isRepeating
     THEN ret(FmtErr("Same arguments provided multiple times: %.*s",
                     <<FloatText(av, uf)>>))
     ELSE [groups |-> [prs.groups EXCEPT ![g].isUsed = TRUE], err |-> NULL]

\* The body of the validation loop for one occurrence uf, j being the
\* alias the lookup found.  Returns [groups, err].
ValidateFound(av, prs, uf, j) ==
  LET g == prs.floats[j].groupIdx + 1
      gr == prs.groups[g]
      ret(err) == [groups |-> prs.groups, err |-> err]
  IN IF j = 0
     THEN ret(FmtErr("Ambiguous argument \"%.*s\" provided", <<FloatText(av, uf)>>))
     ELSE IF gr.isUsed /\ ~gr.isRepeating
     THEN ret(FmtErr("Same arguments provided multiple times: %.*s",
                     <<FloatText(av, uf)>>))
     ELSE IF gr.hasAssign /\ uf.assignVal = NULL /\ ~gr.isAssignOptional
     THEN ret(FmtErr("\"%.*s\" argument requires a value", <<FloatText(av, uf)>>))
     ELSE IF ~gr.hasAssign /\ uf.assignVal # NULL
     THEN ret(FmtErr("\"%.*s\" argument does not require a value",
                     <<FloatText(av, uf)>>))
     ELSE [groups |-> [prs.groups EXCEPT ![g].isUsed = TRUE], err |-> NULL]

ValidateFloat(av, prs, uf) == ValidateFound(av, prs, uf, FindFloat(av, prs, uf, 1))

\* The first alias saved for the group with C index i (0 when none).
RECURSIVE FirstFloatOfGroup(_, _, _)
FirstFloatOfGroup(prs, i, j) ==
  IF j > Len(prs.floats) THEN 0
  ELSE IF prs.floats[j].groupIdx = i THEN j
  ELSE FirstFloatOfGroup(prs, i, j + 1)

\* "Checking floats that specified but not provided": the message of the
\* first group (from 1-based index g on) that is unused and not optional,
\* NULL when there is none.
RECURSIVE CheckProvided(_, _)
CheckProvided(prs, g) ==
  LET gr == prs.groups[g]
      j == FirstFloatOfGroup(prs, g - 1, 1)
      s == IF gr.aliasCount > 1 THEN <<"(", "o", "r", " ", "a", "l", "i", "a", "s", ")", " ">>
           ELSE <<>>
  IN IF g > Len(prs.groups) THEN NULL
     ELSE IF ~gr.isUsed /\ ~gr.isOptional /\ j # 0
     THEN FmtErr("\"%.*s\" argument %srequired but not provided",
                 <<AliasText(prs, prs.floats[j]), s>>)
     ELSE CheckProvided(prs, g + 1)

\* manposArgsCount
ManPosArgsCount(prs) ==
  Cardinality({k \in 1..Len(prs.posArgs) : ~prs.posArgs[k].isOptional})

\* the check that takes no account of the variadic capture
CheckPositionals_NoVariadic(prs, inp) ==
  IF Len(inp.posArgs) < ManPosArgsCount(prs)
  THEN FmtErr("Not enough positional arguments provided", <<>>)
  ELSE IF Len(inp.posArgs) > Len(prs.posArgs)
  THEN FmtErr("Too many positional arguments provided", <<>>)
  ELSE NULL

\* The positional-count check: the message, NULL when the counts fit.
CheckPositionals(prs, inp) ==
  IF Len(inp.posArgs) < ManPosArgsCount(prs)
  THEN FmtErr("Not enough positional arguments provided", <<>>)
  ELSE IF ~prs.varPosArgsEnabled /\ Len(inp.posArgs) > Len(prs.posArgs)
  THEN FmtErr("Too many positional arguments provided", <<>>)
  ELSE NULL

\* ------------------------------------------------------------------------
\* Binding.  The caller's variables are out[1], out[2], ...; the pointer
\* the caller passes for the k-th variable is VarPtr(k) or NULL.  A value
\* is tagged with the C type it was written through.
\* ------------------------------------------------------------------------
VarPtr(k) == [var |-> k]

Unset == [t |-> "unset", v |-> NULL]
BoolVal(b) == [t |-> "bool", v |-> b]
StrVal(p) == [t |-> "char*", v |-> p]
AryVal(cells) == [t |-> "char**", v |-> cells]

\* if(p) { *p = val; }
Write(o, p, val) == IF p = NULL THEN o ELSE [o EXCEPT ![p.var] = val]

\* the save that does not advance the count
SaveTerminated_NoCount(ary, count, val) ==
  [ary |-> Append(Append(SubSeq(ary, 1, count), val), NULL), count |-> count]

\* EXT_ARGS_DYN_ARY_SAVE on a string array followed by the write of the
\* end marker: ary[count] = val; count++; ary[count] = NULL.  The cells
\* past the end marker are not modelled.
SaveTerminated(ary, count, val) ==
  [ary |-> Append(Append(SubSeq(ary, 1, count), val), NULL), count |-> count + 1]

\* "Vars filling, assings": the loop over the occurrences, from the
\* occurrence with 1-based index i on.  Returns [groups, out].
RECURSIVE FillFloats(_, _, _, _, _, _)

\* the binding that leaves the pointer of a bare flag NULL
FloatValue_Absent(gr, uf) ==
  IF gr.hasAssign
  THEN StrVal(uf.assignVal)
  ELSE BoolVal(TRUE)

\* the value an occurrence uf of the group gr, not repeating, binds
FloatValue(gr, uf) ==
  IF gr.hasAssign
  THEN IF uf.assignVal # NULL
       THEN StrVal(uf.assignVal)
       ELSE StrVal(ext_args_no_value)
  ELSE BoolVal(TRUE)

FillFloats(av, prs, floats, i, groups, o) ==
  LET uf == floats[i]
      j == FindFloat(av, prs, uf, 1)
      g == prs.floats[j].groupIdx + 1
      gr == groups[g]
      sv == SaveTerminated(gr.ary, gr.aryCount, uf.assignVal)
  IN IF i > Len(floats) THEN [groups |-> groups, out |-> o]
     ELSE IF j = 0 THEN FillFloats(av, prs, floats, i + 1, groups, o)
     ELSE IF gr.isRepeating
     THEN FillFloats(av, prs, floats, i + 1,
                     [groups EXCEPT ![g].ary = sv.ary, ![g].aryCount = sv.count],
                     Write(o, gr.varPtr, AryVal(sv.ary)))
     ELSE FillFloats(av, prs, floats, i + 1, groups,
                     Write(o, gr.varPtr, FloatValue(gr, uf)))

\* "filling floats that specified but not provided": the loop over the
\* groups, from the 1-based index g on.  Returns [groups, out].
RECURSIVE FillGroups(_, _, _)

\* the default that writes NULL for a flag-only group as well
DefaultValue_NoFalse(gr) ==
  IF gr.isRepeating THEN AryVal(<<NULL>>)
  ELSE StrVal(NULL)

\* the value an unused optional group gr binds
DefaultValue(gr) ==
  IF gr.isRepeating THEN AryVal(<<NULL>>)
  ELSE IF gr.hasAssign THEN StrVal(NULL)
  ELSE BoolVal(FALSE)

FillGroups(groups, g, o) ==
  LET gr == groups[g]
  IN IF g > Len(groups) THEN [groups |-> groups, out |-> o]
     ELSE IF ~gr.isUsed /\ gr.isOptional
     THEN IF gr.isRepeating
          THEN FillGroups([groups EXCEPT ![g].ary = <<NULL>>, ![g].aryCount = 1],
                          g + 1, Write(o, gr.varPtr, DefaultValue(gr)))
          ELSE FillGroups(groups, g + 1, Write(o, gr.varPtr, DefaultValue(gr)))
     ELSE FillGroups(groups, g + 1, o)

\* "NULLing optionals not provided by user": for(i = inp->posArgsCount;
\* i < prs.posArgsCount; i++), i the C index.
RECURSIVE NullPositionals(_, _, _)
NullPositionals(prs, i, o) ==
  IF i >= Len(prs.posArgs) THEN o
  ELSE NullPositionals(prs, i + 1, Write(o, prs.posArgs[i + 1].varPtr, StrVal(NULL)))

\* "filling posArgs vars": the loop over the positional values, i the C
\* index.  Returns [ary, count, out], ary being optsVarAry (<<>> while it
\* is not allocated).
RECURSIVE FillPosArgs(_, _, _, _, _, _)
\* the loop that is left at the first NULL pointer, of a declared
\* positional too
FillPosArgs_Break(prs, posArgs, i, ary, count, o) ==
  LET sv == SaveTerminated(ary, count, posArgs[i + 1])
  IN IF i >= Len(posArgs) THEN [ary |-> ary, count |-> count, out |-> o]
     ELSE IF i < Len(prs.posArgs)
     THEN IF prs.posArgs[i + 1].varPtr = NULL
          THEN [ary |-> ary, count |-> count, out |-> o]
          ELSE FillPosArgs(prs, posArgs, i + 1, ary, count,
                           Write(o, prs.posArgs[i + 1].varPtr, StrVal(posArgs[i + 1])))
     ELSE IF prs.varPosrArgsVarPtr = NULL
     THEN [ary |-> ary, count |-> count, out |-> o]
     ELSE FillPosArgs(prs, posArgs, i + 1, sv.ary, sv.count,
                      Write(o, prs.varPosrArgsVarPtr, AryVal(sv.ary)))

FillPosArgs(prs, posArgs, i, ary, count, o) ==
  LET sv == SaveTerminated(ary, count, posArgs[i + 1])
  IN IF i >= Len(posArgs) THEN [ary |-> ary, count |-> count, out |-> o]
     ELSE IF i < Len(prs.posArgs)
     THEN FillPosArgs(prs, posArgs, i + 1, ary, count,
                      Write(o, prs.posArgs[i + 1].varPtr, StrVal(posArgs[i + 1])))
     ELSE IF prs.varPosrArgsVarPtr = NULL
     THEN [ary |-> ary, count |-> count, out |-> o]
     ELSE FillPosArgs(prs, posArgs, i + 1, sv.ary, sv.count,
                      Write(o, prs.varPosrArgsVarPtr, AryVal(sv.ary)))

\* the positional block without the empty array for no leftovers
FillPositionals_NoEmpty(prs, inp, o) ==
  NullPositionals(prs, Len(inp.posArgs),
                  FillPosArgs(prs, inp.posArgs, 0, <<>>, 0,
                              NullPositionals(prs, Len(inp.posArgs), o)).out)

\* The whole positional block of the binding.
FillPositionals(prs, inp, o) ==
  LET o1 == NullPositionals(prs, Len(inp.posArgs), o)
      f == FillPosArgs(prs, inp.posArgs, 0, <<>>, 0, o1)
      o2 == NullPositionals(prs, Len(inp.posArgs), f.out)
  IN IF prs.varPosArgsEnabled /\ f.ary = <<>>
     THEN Write(o2, prs.varPosrArgsVarPtr, AryVal(<<NULL>>))
     ELSE o2

\* "Get pointers to user passed vars": the parser after the k-th va_arg
\* value p was stored for the k-th element of prs.sequence.
RECURSIVE GetPointers(_, _, _)
GetPointers(prs, ptrs, k) ==
  LET sq == prs.sequence[k]
  IN IF k > Len(prs.sequence)
     THEN IF prs.varPosArgsEnabled
          THEN [prs EXCEPT !.varPosrArgsVarPtr = ptrs[k]]
          ELSE prs
     ELSE IF sq.type = EXT_ARGS_ARG_POS
     THEN GetPointers([prs EXCEPT !.posArgs[sq.idx + 1].varPtr = ptrs[k]], ptrs, k + 1)
     ELSE GetPointers([prs EXCEPT !.groups[sq.idx + 1].varPtr = ptrs[k]], ptrs, k + 1)

\* The number of va_arg reads of the call.
SlotCount(prs) == Len(prs.sequence) + (IF prs.varPosArgsEnabled THEN 1 ELSE 0)

\* ------------------------------------------------------------------------
\* Inputs of a call
\* ------------------------------------------------------------------------
MaxDecls == 2
MaxArgs == 2

\* Declarations a schema text is written from.
DeclX == <<"x">>
DeclOptY == <<"[", "y", "]">>
DeclOptAB == <<"[", "-", "a", "|", "-", "b", "]">>
DeclAVal == <<"-", "a", "=", "v">>
DeclAOptVal == <<"-", "a", "[", "=", "v", "]">>
DeclOptAOptVal == <<"[", "-", "a", "[", "=", "v", "]", "]">>
DeclOptBRep == <<"[", "-", "b", "=", "v", ".", ".", ".", "]">>
DeclABRep == <<"-", "a", "|", "-", "b", "=", "v", ".", ".", ".">>
DeclOptUpperA == <<"[", "-", "A", "]">>
DeclOpenX == <<"[", "x">>

Decls == {DeclX, DeclOptY, DeclOptAB, DeclAVal, DeclAOptVal, DeclOptAOptVal,
          DeclOptBRep, DeclABRep, DeclOpenX}

Ellipsis == <<".", ".", ".">>

\* Raw arguments an argument vector is made of.
RawArgs == {<<"-", "a">>, <<"-", "a", "=", "1">>, <<"-", "b", "=", "2">>, <<"1">>}

SeqsUpTo(S, n) == UNION {[1..k -> S] : k \in 0..n}

\* The schema text: the declarations separated by one space, then the
\* ellipsis when dots.
RECURSIVE JoinDecls(_)
JoinDecls(ds) ==
  IF Len(ds) = 0 THEN <<>>
  ELSE IF Len(ds) = 1 THEN ds[1]
  ELSE ds[1] \o <<" ">> \o JoinDecls(Tail(ds))

SchemaText(ds, dots) ==
  IF ~dots THEN JoinDecls(ds)
  ELSE IF Len(ds) = 0 THEN Ellipsis
  ELSE JoinDecls(ds) \o <<" ">> \o Ellipsis

\* ------------------------------------------------------------------------
\* The call ext_args(argc, argv, fmt, ap, oerr) as a state machine
\* ------------------------------------------------------------------------
VARIABLES
  written,  \* the declarations fmt was written from (history of the input)
  fmt,      \* the schema string
  argv,     \* argv[1..argc-1]
  pc,       \* the block of ext_args that runs next
  prs,      \* EXT_ARGS_Parser prs
  inp,      \* EXT_ARGS_Inp *inp
  i,        \* the C index of the occurrence the validation loop is at
  ap,       \* the pointers read from the va_list so far
  out,      \* the caller's variables behind the pointers
  res,      \* int res
  oerr      \* *oerr

vars == <<written, fmt, argv, pc, prs, inp, i, ap, out, res, oerr>>

\* The state at the entry of a call whose schema is written from the
\* declarations decls and whose raw arguments are among raws.
Entry(decls, raws) ==
  /\ written \in SeqsUpTo(decls, MaxDecls)
  /\ \E dots \in BOOLEAN : fmt = SchemaText(written, dots)
  /\ argv \in SeqsUpTo(raws, MaxArgs)
  /\ pc = "Synopsis"
  /\ prs = NewParser(fmt)
  /\ inp = [tokens |-> <<>>, floats |-> <<>>, posArgs |-> <<>>]
  /\ i = 0
  /\ ap = <<>>
  /\ out = <<>>
  /\ res = EXT_ARGS_NO_ERR
  /\ oerr = Unset

Init == Entry(Decls, RawArgs)

\* goto done with an error
Fail(code, msg) ==
  /\ res' = code
  /\ oerr' = msg
  /\ pc' = "done"

\* setjmp and EXT_ARGS_Synopsis, with the longjmp cases
Synopsis ==
  /\ pc = "Synopsis"
  /\ prs' = EXT_ARGS_Synopsis(prs)
  /\ IF prs'.jmp = EXT_ARGS_ERR_LEX
     THEN Fail(EXT_ARGS_SCHEMA_ERR,
               FmtErr("Schema lexing error, starting from \"%s\"",
                      <<StrFrom(fmt, prs'.errStart)>>))
     ELSE IF prs'.jmp = EXT_ARGS_ERR_PARSE
     THEN Fail(EXT_ARGS_SCHEMA_ERR,
               FmtErr("Schema parsing error. Expected %s but received %s, starting from \"%s\"",
                      <<EXT_ARGS_TokTypeToName(prs'.expTokType),
                        EXT_ARGS_TokTypeToName(prs'.unexpTokType),
                        StrFrom(fmt, prs'.errStart)>>))
     ELSE /\ pc' = "SchemaValidation"
          /\ UNCHANGED <<res, oerr>>
  /\ UNCHANGED <<written, fmt, argv, inp, i, ap, out>>

\* a validation that looks at the first two positionals only
SchemaValidation_FirstPair ==
  /\ pc = "SchemaValidation"
  /\ IF /\ Len(prs.posArgs) >= 2
        /\ prs.posArgs[1].isOptional
        /\ ~prs.posArgs[2].isOptional
     THEN Fail(EXT_ARGS_SCHEMA_ERR,
               FmtErr("All optional non-flag arguments must be chained on the schema's right side", <<>>))
     ELSE /\ pc' = "Lexing"
          /\ UNCHANGED <<res, oerr>>
  /\ UNCHANGED <<written, fmt, argv, prs, inp, i, ap, out>>

\* "Additional schema validations"
SchemaValidation ==
  /\ pc = "SchemaValidation"
  /\ IF \E k \in 1..(Len(prs.posArgs) - 1) :
          prs.posArgs[k].isOptional /\ ~prs.posArgs[k + 1].isOptional
     THEN Fail(EXT_ARGS_SCHEMA_ERR,
               FmtErr("All optional non-flag arguments must be chained on the schema's right side", <<>>))
     ELSE /\ pc' = "Lexing"
          /\ UNCHANGED <<res, oerr>>
  /\ UNCHANGED <<written, fmt, argv, prs, inp, i, ap, out>>

\* a block that sets the message and goes on to the next block
Continue_GoOn(err, next) ==
  /\ pc' = next
  /\ IF err # NULL
     THEN res' = EXT_ARGS_INPUT_ERR /\ oerr' = err
     ELSE UNCHANGED <<res, oerr>>

\* goto done when a block of the input side returned the message err,
\* the block next otherwise
Continue(err, next) ==
  IF err # NULL
  THEN Fail(EXT_ARGS_INPUT_ERR, err)
  ELSE /\ pc' = next
       /\ UNCHANGED <<res, oerr>>

LexingDone(r) ==
  /\ inp' = [inp EXCEPT !.tokens = r.tokens]
  /\ Continue(r.err, "Parsing")

\* "Parse User's input / Lexing"
Lexing ==
  /\ pc = "Lexing"
  /\ LexingDone(Lex(argv))
  /\ UNCHANGED <<written, fmt, argv, prs, i, ap, out>>

ParsingDone(r) ==
  /\ inp' = [inp EXCEPT !.floats = r.floats, !.posArgs = r.posArgs]
  /\ Continue(r.err, "Validations")

\* "Parsing"
Parsing ==
  /\ pc = "Parsing"
  /\ ParsingDone(ParseLoop(argv, inp.tokens, 0, <<>>, <<>>))
  /\ UNCHANGED <<written, fmt, argv, prs, i, ap, out>>

ValidationDone(r) ==
  /\ prs' = [prs EXCEPT !.groups = r.groups]
  /\ i' = IF r.err # NULL THEN i ELSE i + 1
  /\ Continue(r.err, "Validations")

\* "Validations": one iteration of the loop over the occurrences
Validation ==
  /\ pc = "Validations"
  /\ i < Len(inp.floats)
  /\ ValidationDone(ValidateFloat(argv, prs, inp.floats[i + 1]))
  /\ UNCHANGED <<written, fmt, argv, inp, ap, out>>

\* the end of the validation loop, then "Checking floats that specified
\* but not provided"
Provided ==
  /\ pc = "Validations"
  /\ i >= Len(inp.floats)
  /\ Continue(CheckProvided(prs, 1), "Positionals")
  /\ UNCHANGED <<written, fmt, argv, prs, inp, i, ap, out>>

\* the check of the number of positional values after the read of the
\* slots
Positionals_ReadsFirst ==
  /\ pc = "Positionals"
  /\ ap' = [k \in 1..SlotCount(prs) |-> VarPtr(k)]
  /\ Continue(CheckPositionals(prs, inp), "GetPointers")
  /\ UNCHANGED <<written, fmt, argv, prs, inp, i, out>>

\* the two checks of the number of positional values
Positionals ==
  /\ pc = "Positionals"
  /\ Continue(CheckPositionals(prs, inp), "GetPointers")
  /\ UNCHANGED <<written, fmt, argv, prs, inp, i, ap, out>>

\* The slots a caller passes NULL for: none of the n, or one of them.
NullSlots(n) == {{}} \cup {{k} : k \in 1..n}

\* "Get pointers to user passed vars": the caller passes, for each slot,
\* the address of its variable or NULL
Pointers ==
  /\ pc = "GetPointers"
  /\ \E nulls \in NullSlots(SlotCount(prs)) :
       ap' = [k \in 1..SlotCount(prs) |-> IF k \in nulls THEN NULL ELSE VarPtr(k)]
  /\ prs' = GetPointers(prs, ap', 1)
  /\ out' = [k \in 1..SlotCount(prs) |-> Unset]
  /\ pc' = "Fill"
  /\ UNCHANGED <<written, fmt, argv, inp, i, res, oerr>>

FillDone(g) ==
  /\ prs' = [prs EXCEPT !.groups = g.groups]
  /\ out' = FillPositionals(prs, inp, g.out)

FillUnused(f) == FillDone(FillGroups(f.groups, 1, f.out))

\* "Vars filling, assings" up to the label done
Fill ==
  /\ pc = "Fill"
  /\ FillUnused(FillFloats(argv, prs, inp.floats, 1, prs.groups, out))
  /\ pc' = "done"
  /\ UNCHANGED <<written, fmt, argv, inp, i, ap, res, oerr>>

Next ==
  \/ Synopsis
  \/ SchemaValidation
  \/ Lexing
  \/ Parsing
  \/ Validation
  \/ Provided
  \/ Positionals
  \/ Pointers
  \/ Fill

Spec == Init /\ [][Next]_vars

\* Calls for the lookup of the flags: aliases that differ in case or are
\* declared twice, flags that differ from an alias in case or extend it.
LookupDecls == {DeclOptUpperA, DeclOptAB, DeclOptAOptVal, DeclABRep}

LookupArgs == {<<"-", "a">>, <<"-", "A">>, <<"-", "a", "b">>,
               <<"-", "a", "=", "1">>, <<"-", "b", "=", "2">>}

InitLookup == Entry(LookupDecls, LookupArgs)

SpecLookup == InitLookup /\ [][Next]_vars

\* The state at the entry of a call whose schema is written from one of
\* the sequences of declarations schemas and whose argument vector is one
\* of vectors.
EntryOf(schemas, vectors) ==
  /\ written \in schemas
  /\ \E dots \in BOOLEAN : fmt = SchemaText(written, dots)
  /\ argv \in vectors
  /\ pc = "Synopsis"
  /\ prs = NewParser(fmt)
  /\ inp = [tokens |-> <<>>, floats |-> <<>>, posArgs |-> <<>>]
  /\ i = 0
  /\ ap = <<>>
  /\ out = <<>>
  /\ res = EXT_ARGS_NO_ERR
  /\ oerr = Unset

\* Calls with a terminator: raw arguments of two dashes, alone or with
\* more text, before and after other raw arguments.
TermDecls == {DeclX, DeclOptY, DeclOptAOptVal}

TermArgs == {<<"-", "-">>, <<"-", "-", "1">>, <<"-", "a">>, <<"1">>}

InitTerm == EntryOf(SeqsUpTo(TermDecls, MaxDecls), SeqsUpTo(TermArgs, MaxArgs + 1))

SpecTerm == InitTerm /\ [][Next]_vars

\* Calls that break the rules of several stages: raw arguments that are
\* flags with text after the name, with an empty value, with a name that
\* ends in a dash; schemas with a grammar error, with a mandatory
\* positional after an optional one, with a mandatory group.
InputDecls == {DeclX, DeclOptY, DeclAVal, DeclOptAB, DeclOpenX}

InputArgs == {<<"-", "a">>, <<"-", "a", "=", "1">>, <<"-", "a", "=">>,
              <<"-", "a", ".">>, <<"-", "a", "-">>, <<"-", "b">>, <<"1">>}

InitInput == Entry(InputDecls, InputArgs)

SpecInput == InitInput /\ [][Next]_vars

\* Calls whose schema is long enough for a group between two positionals,
\* or has no declaration, or has a grammar or a lexing error.
DeclOptValRep == <<"-", "a", "[", "=", "v", ".", ".", ".", "]">>
DeclDigit == <<"1", "a">>

SchemaDecls == {DeclX, DeclOptY, DeclAVal, DeclAOptVal, DeclOptBRep, DeclOpenX,
                DeclOptValRep, DeclDigit}

SchemaArgs == {<<"-", "a">>, <<"1">>}

InitSchema == EntryOf(SeqsUpTo(SchemaDecls, MaxDecls + 1), SeqsUpTo(SchemaArgs, MaxArgs))

SpecSchema == InitSchema /\ [][Next]_vars

\* Calls whose schema has a grammar error at its start, after a
\* declaration, inside a declaration or after an ellipsis.
DeclDotsA == <<".", ".", ".", " ", "a">>

GrammarDecls == {DeclX, DeclOptY, DeclOptBRep, DeclOpenX, DeclOptValRep,
                 DeclDigit, DeclDotsA}

InitGrammar == EntryOf(SeqsUpTo(GrammarDecls, MaxDecls), SeqsUpTo(SchemaArgs, MaxArgs))

SpecGrammar == InitGrammar /\ [][Next]_vars

\* Calls with a raw argument that begins with "=", at the start of the
\* vector, after a plain value, after a bare flag, after a flag with a
\* value and after a flag with "=" and no value.
AssignDecls == {DeclOptY, DeclOptAB, DeclAVal, DeclOptAOptVal}

AssignArgs == {<<"-", "a">>, <<"=", "1">>, <<"-", "a", "=", "1">>,
               <<"-", "a", "=">>, <<"1">>}

InitAssign == Entry(AssignDecls, AssignArgs)

SpecAssign == InitAssign /\ [][Next]_vars

\* Calls with flags of two groups and two different plain values, in
\* every order.
MoveDecls == {DeclX, DeclOptY, DeclABRep, DeclOptAOptVal}

MoveArgs == {<<"-", "a">>, <<"-", "a", "=", "1">>, <<"-", "b", "=", "2">>,
             <<"1">>, <<"2">>}

InitMove == Entry(MoveDecls, MoveArgs)

SpecMove == InitMove /\ [][Next]_vars

\* ------------------------------------------------------------------------
\* What the schema text declares, read off the declarations it was
\* written from, and what the parsed input holds for each declaration.
\* ------------------------------------------------------------------------
FlagA == <<"-", "a">>
FlagB == <<"-", "b">>
FlagUpperA == <<"-", "A">>
OrAlias == <<"(", "o", "r", " ", "a", "l", "i", "a", "s", ")", " ">>

Positional(optional) ==
  [kind |-> "pos", optional |-> optional, aliases |-> <<>>,
   hasAssign |-> FALSE, valueOptional |-> FALSE, repeating |-> FALSE]

Group(optional, aliases, hasAssign, valueOptional, repeating) ==
  [kind |-> "group", optional |-> optional, aliases |-> aliases,
   hasAssign |-> hasAssign, valueOptional |-> valueOptional, repeating |-> repeating]

DeclInfo(d) ==
  CASE d = DeclX -> Positional(FALSE)
    [] d = DeclOptY -> Positional(TRUE)
    [] d = DeclOptAB -> Group(TRUE, <<FlagA, FlagB>>, FALSE, FALSE, FALSE)
    [] d = DeclOptUpperA -> Group(TRUE, <<FlagUpperA>>, FALSE, FALSE, FALSE)
    [] d = DeclAVal -> Group(FALSE, <<FlagA>>, TRUE, FALSE, FALSE)
    [] d = DeclAOptVal -> Group(FALSE, <<FlagA>>, TRUE, TRUE, FALSE)
    [] d = DeclOptAOptVal -> Group(TRUE, <<FlagA>>, TRUE, TRUE, FALSE)
    [] d = DeclOptBRep -> Group(TRUE, <<FlagB>>, TRUE, FALSE, TRUE)
    [] d = DeclABRep -> Group(FALSE, <<FlagA, FlagB>>, TRUE, FALSE, TRUE)
    [] OTHER -> [kind |-> "none", optional |-> FALSE, aliases |-> <<>>,
                 hasAssign |-> FALSE, valueOptional |-> FALSE, repeating |-> FALSE]

Info(k) == DeclInfo(written[k])
IsPos(k) == Info(k).kind = "pos"
IsGroup(k) == Info(k).kind = "group"

\* the schema text has an ellipsis after its last declaration
HasTrailingDots == fmt # JoinDecls(written)

\* the declaration text ends in the assignment "= NAME"
EndsWithAssign(d) ==
  /\ DeclInfo(d).kind = "group"
  /\ DeclInfo(d).hasAssign
  /\ d[Len(d)] \in NameChars

\* An ellipsis right after "= NAME" belongs to the group.
Repeating(k) ==
  \/ Info(k).repeating
  \/ k = Len(written) /\ HasTrailingDots /\ EndsWithAssign(written[k])

\* the position before p of the last character of s that is not in set
RECURSIVE SkipBack(_, _, _)
SkipBack(s, p, set) ==
  IF p >= 1 /\ s[p] \in set THEN SkipBack(s, p - 1, set) ELSE p

\* the position of the last character of s that is not white space
TextEnd(s) == SkipBack(s, Len(s), Spaces)

\* the schema string ends in an ellipsis
EndsInEllipsis(s) ==
  /\ TextEnd(s) >= 3
  /\ \A d \in 0..2 : s[TextEnd(s) - d] = "."

\* the position of the character before the name that ends at q
BeforeName(s, q) == SkipBack(s, SkipBack(s, q, NameChars), Spaces)

\* the final ellipsis of s directly follows, white space aside, an
\* assignment "= NAME"
EllipsisAfterAssign(s) ==
  LET q == SkipBack(s, TextEnd(s) - 3, Spaces)
  IN /\ q >= 1
     /\ s[q] \in NameChars
     /\ BeforeName(s, q) >= 1
     /\ s[BeforeName(s, q)] = "="

\* the schema string ends in an ellipsis that is not the ellipsis of a
\* repeatable group
Variadic == EndsInEllipsis(fmt) /\ ~EllipsisAfterAssign(fmt)

\* the number of positional declarations among the first k
PosNo(k) == Cardinality({m \in 1..k : IsPos(m)})

\* the number of declarations among the first k that are well formed
DeclNo(k) == Cardinality({m \in 1..k : IsPos(m) \/ IsGroup(m)})

\* the number of the slot after the slots of the declarations
LastSlot == Len(written) + 1

\* the schema was parsed and passed its validation
SchemaOk == pc \notin {"Synopsis", "SchemaValidation"} /\ res # EXT_ARGS_SCHEMA_ERR

\* a raw argument that is a positional value, whatever is next to it
IsPlain(a) == Len(a) = 0 \/ a[1] \notin {"-", "="}

\* a raw argument that is a flag, with a value or without "="
IsFlagArg(a) ==
  /\ Len(a) >= 2
  /\ a[1] = "-"
  /\ a[2] \in NameStart
  /\ a[Len(a)] # "="

CleanInput == \A a \in 1..Len(argv) : IsPlain(argv[a]) \/ IsFlagArg(argv[a])

ArgIdx == [a \in 1..Len(argv) |-> a]

PlainIdx == SelectSeq(ArgIdx, LAMBDA a : IsPlain(argv[a]))

\* the plain positional values of the input, in input order
PlainValues == [n \in 1..Len(PlainIdx) |-> Ptr(PlainIdx[n], 0)]

\* the number of group declarations among the first k
GroupNo(k) == Cardinality({m \in 1..k : IsGroup(m)})

\* the declaration a flag text is attributed to: the first group, in
\* declaration order, with an alias equal to it (0 when none)
Owners(text) ==
  {k \in 1..Len(written) :
     IsGroup(k) /\ \E a \in 1..Len(Info(k).aliases) : Info(k).aliases[a] = text}

Owner(text) ==
  IF Owners(text) = {} THEN 0
  ELSE CHOOSE k \in Owners(text) : \A m \in Owners(text) : k <= m

\* the flag text of the o-th occurrence of the parsed input
Flag(o) == SubSeq(argv[inp.floats[o].str.arg], 1, inp.floats[o].len)

OccIdx == [o \in 1..Len(inp.floats) |-> o]

OwnedBy(k, o) == Owner(Flag(o)) = k

\* the occurrences attributed to the declaration k, in input order
Occ(k) == SelectSeq(OccIdx, LAMBDA o : OwnedBy(k, o))

\* their assigned values
Values(k) == [m \in 1..Len(Occ(k)) |-> inp.floats[Occ(k)[m]].assignVal]

\* the occurrence the validation loop is at, and its declaration
Cur == i + 1
CurOwner == Owner(Flag(Cur))

\* an earlier occurrence was attributed to the declaration k
Seen(k) == \E o \in 1..i : OwnedBy(k, o)

AtValidation == pc = "Validations" /\ i < Len(inp.floats)

InputError(msg) == pc' = "done" /\ res' = EXT_ARGS_INPUT_ERR /\ oerr' = msg

Accepted == pc' = "Validations" /\ i' = i + 1 /\ res' = EXT_ARGS_NO_ERR

Success == pc = "done" /\ res = EXT_ARGS_NO_ERR

Bound(k) == k <= Len(ap) /\ ap[k] # NULL

\* ------------------------------------------------------------------------
\* C1: a non-repeatable group that occurs exactly once in a call that
\* succeeds binds TRUE when it is flag-only, the text after "=" when a
\* value was assigned, and the no-value sentinel when its value is
\* optional and the flag was given bare; the sentinel is neither NULL nor
\* a pointer into the argument vector.
\* ------------------------------------------------------------------------
ArgvPointers ==
  UNION {{Ptr(a, off) : off \in 0..Len(argv[a])} : a \in 1..Len(argv)}

ValueAfterEql(uf) ==
  uf.assignVal.arg = uf.str.arg =>
    /\ uf.assignVal.off = uf.len + 1
    /\ argv[uf.str.arg][uf.len + 1] = "="

C1_Single(k) ==
  LET uf == inp.floats[Occ(k)[1]]
  IN /\ ~Info(k).hasAssign => out[k] = BoolVal(TRUE)
     /\ (Info(k).hasAssign /\ uf.assignVal # NULL) =>
          /\ out[k] = StrVal(uf.assignVal)
          /\ uf.assignVal \in ArgvPointers
          /\ ValueAfterEql(uf)
     /\ (Info(k).hasAssign /\ Info(k).valueOptional /\ uf.assignVal = NULL) =>
          /\ out[k] = StrVal(ext_args_no_value)
          /\ out[k].v # NULL
          /\ out[k].v \notin ArgvPointers

C1_SingleOccurrence ==
  Success =>
    \A k \in 1..Len(written) :
      (IsGroup(k) /\ ~Repeating(k) /\ Len(Occ(k)) = 1 /\ Bound(k)) => C1_Single(k)

\* a call bound the sentinel for "-a[=v]" given bare
C1_Witness ==
  /\ Success
  /\ \E k \in 1..Len(written) :
       /\ written[k] = DeclAOptVal
       /\ Len(Occ(k)) = 1
       /\ inp.floats[Occ(k)[1]].assignVal = NULL
       /\ Bound(k)
       /\ out[k] = StrVal(ext_args_no_value)

\* ------------------------------------------------------------------------
\* C2: when the call gets to the check of the groups that were not
\* provided, it fails with the "required but not provided" message of the
\* first group, in declaration order, that has no occurrence and is not
\* optional, naming its first alias and "(or alias) " iff it has several;
\* in a call that succeeds every group without an occurrence has its
\* default written: FALSE, NULL or the empty sequence.
\* ------------------------------------------------------------------------
Missing == {k \in 1..Len(written) : IsGroup(k) /\ Len(Occ(k)) = 0 /\ ~Info(k).optional}

FirstMissing == CHOOSE k \in Missing : \A m \in Missing : k <= m

MissingMsg(k) ==
  FmtErr("\"%.*s\" argument %srequired but not provided",
         <<Info(k).aliases[1], IF Len(Info(k).aliases) > 1 THEN OrAlias ELSE <<>> >>)

AtProvided == pc = "Validations" /\ i >= Len(inp.floats)

C2_Check ==
  AtProvided =>
    IF Missing # {}
    THEN pc' = "done" /\ res' = EXT_ARGS_INPUT_ERR /\ oerr' = MissingMsg(FirstMissing)
    ELSE pc' = "Positionals" /\ res' = EXT_ARGS_NO_ERR

C2_Default(k) ==
  IF Repeating(k) THEN AryVal(<<NULL>>)
  ELSE IF Info(k).hasAssign THEN StrVal(NULL)
  ELSE BoolVal(FALSE)

C2_Defaults ==
  Success =>
    \A k \in 1..Len(written) :
      (IsGroup(k) /\ Len(Occ(k)) = 0) =>
        /\ Info(k).optional
        /\ Bound(k) => out[k] = C2_Default(k)

C2_NotProvided == [][C2_Check]_vars /\ []C2_Defaults

\* a call that failed for the second of two groups, the first being
\* optional, and named "(or alias) "
C2_Witness ==
  /\ pc = "done"
  /\ res = EXT_ARGS_INPUT_ERR
  /\ Missing # {}
  /\ FirstMissing = 2
  /\ written[2] = DeclABRep
  /\ oerr = MissingMsg(2)
  /\ oerr.args[2] = OrAlias

\* ------------------------------------------------------------------------
\* C3: in a call that succeeds the n-th plain positional value of the
\* input is bound to the n-th positional declaration, an optional
\* positional beyond the values is bound to NULL, and with variadic
\* capture the last slot holds the values beyond the declared ones, in
\* input order, as a terminated sequence (empty, not NULL, when there is
\* none).
\* ------------------------------------------------------------------------
Leftovers == SubSeq(inp.posArgs, PosNo(Len(written)) + 1, Len(inp.posArgs))

C3_Value(k) ==
  IF PosNo(k) <= Len(inp.posArgs) THEN StrVal(inp.posArgs[PosNo(k)]) ELSE StrVal(NULL)

C3_Positionals ==
  Success =>
    /\ CleanInput => inp.posArgs = PlainValues
    /\ \A k \in 1..Len(written) :
         IsPos(k) =>
           /\ PosNo(k) > Len(inp.posArgs) => Info(k).optional
           /\ Bound(k) => out[k] = C3_Value(k)
    /\ (Variadic /\ Bound(LastSlot)) =>
         /\ out[LastSlot] = AryVal(Leftovers \o <<NULL>>)
         /\ out[LastSlot].t = "char**"

\* a call with "x ..." and two values bound the second to the last slot
C3_Witness ==
  /\ Success
  /\ Variadic
  /\ Len(written) >= 1
  /\ Len(Leftovers) >= 1
  /\ Bound(LastSlot)
  /\ out[LastSlot] = AryVal(Leftovers \o <<NULL>>)
  /\ Bound(1)
  /\ IsPos(1)
  /\ out[1] = StrVal(Ptr(1, 0))

\* ------------------------------------------------------------------------
\* C4: in a call that succeeds the slot of a repeatable group holds the
\* assigned values of the occurrences of all its aliases, in input order,
\* then the end marker; every element is a value of the argument vector
\* (not NULL, not the sentinel); with no occurrence it holds the empty
\* sequence, not NULL.
\* ------------------------------------------------------------------------
C4_Repeatable ==
  Success =>
    \A k \in 1..Len(written) :
      (IsGroup(k) /\ Repeating(k)) =>
        /\ \A m \in 1..Len(Values(k)) :
             /\ Values(k)[m] # NULL
             /\ Values(k)[m] # ext_args_no_value
             /\ Values(k)[m] \in ArgvPointers
        /\ Bound(k) =>
             /\ out[k] = AryVal(Values(k) \o <<NULL>>)
             /\ out[k].t = "char**"

\* a call with "-a|-b=v..." bound the values of -a=1 and -b=2 in input
\* order
C4_Witness ==
  /\ Success
  /\ \E k \in 1..Len(written) :
       /\ written[k] = DeclABRep
       /\ Len(Occ(k)) = 2
       /\ Flag(Occ(k)[1]) # Flag(Occ(k)[2])
       /\ Bound(k)
       /\ out[k] = AryVal(<<Ptr(1, 3), Ptr(2, 3), NULL>>)

\* ------------------------------------------------------------------------
\* C5: when the validation reaches an occurrence that is attributed to a
\* group and is not a second occurrence of a non-repeatable group, then
\* without a value for a group whose value is not optional (a repeatable
\* group included) the call fails with "requires a value", with a value
\* for a flag-only group it fails with "does not require a value", and
\* otherwise, so for a group with an optional value with and without a
\* value, the occurrence is accepted.
\* ------------------------------------------------------------------------
RequiresMsg(text) == FmtErr("\"%.*s\" argument requires a value", <<text>>)

NotRequiresMsg(text) == FmtErr("\"%.*s\" argument does not require a value", <<text>>)

Duplicate == CurOwner # 0 /\ Seen(CurOwner) /\ ~Repeating(CurOwner)

HasValue == inp.floats[Cur].assignVal # NULL

C5_Step ==
  (AtValidation /\ CurOwner # 0 /\ ~Duplicate) =>
    /\ Repeating(CurOwner) => (Info(CurOwner).hasAssign /\ ~Info(CurOwner).valueOptional)
    /\ IF Info(CurOwner).hasAssign /\ ~Info(CurOwner).valueOptional /\ ~HasValue
       THEN InputError(RequiresMsg(Flag(Cur)))
       ELSE IF ~Info(CurOwner).hasAssign /\ HasValue
       THEN InputError(NotRequiresMsg(Flag(Cur)))
       ELSE Accepted

C5_ValueRules == [][C5_Step]_vars

\* "[-a[=v]]" given bare was accepted
C5_Witness ==
  /\ pc = "Validations"
  /\ i = 1
  /\ res = EXT_ARGS_NO_ERR
  /\ Owner(Flag(1)) # 0
  /\ written[Owner(Flag(1))] = DeclOptAOptVal
  /\ inp.floats[1].assignVal = NULL

\* ------------------------------------------------------------------------
\* C6: when the validation reaches an occurrence, the call fails with
\* "Same arguments provided multiple times: <its text>" exactly when the
\* occurrence is attributed to a non-repeatable group that an earlier
\* occurrence, through any alias, was attributed to; a value rule the
\* occurrence breaks as well is not reported; an occurrence of a
\* repeatable group never fails so.
\* ------------------------------------------------------------------------
SameMsg(text) == FmtErr("Same arguments provided multiple times: %.*s", <<text>>)

C6_Step ==
  AtValidation =>
    /\ Duplicate => InputError(SameMsg(Flag(Cur)))
    /\ ~Duplicate => ~(pc' = "done" /\ oerr'.fmt = SameMsg(Flag(Cur)).fmt)

C6_Duplicates == [][C6_Step]_vars

\* "[-a|-b]" given -a and then -b=2: the second occurrence comes through
\* the other alias and has a value the group does not take
C6_Witness ==
  /\ pc = "done"
  /\ res = EXT_ARGS_INPUT_ERR
  /\ i = 1
  /\ Len(inp.floats) = 2
  /\ Flag(1) = FlagA
  /\ Flag(2) = FlagB
  /\ inp.floats[2].assignVal # NULL
  /\ Owner(FlagB) # 0
  /\ written[Owner(FlagB)] = DeclOptAB
  /\ oerr = SameMsg(FlagB)

\* ------------------------------------------------------------------------
\* C7: when the call gets to the check of the number of positional
\* values, it fails with "Not enough positional arguments provided" when
\* they are fewer than the mandatory positional declarations, with "Too
\* many positional arguments provided" when they are more than the
\* positional declarations and there is no variadic capture, and goes on
\* otherwise: with variadic capture no number is too many.
\* ------------------------------------------------------------------------
Mandatory == Cardinality({k \in 1..Len(written) : IsPos(k) /\ ~Info(k).optional})

Declared == PosNo(Len(written))

C7_Step ==
  pc = "Positionals" =>
    /\ CleanInput => Len(inp.posArgs) = Len(PlainValues)
    /\ IF Len(inp.posArgs) < Mandatory
       THEN InputError(FmtErr("Not enough positional arguments provided", <<>>))
       ELSE IF Len(inp.posArgs) > Declared /\ ~Variadic
       THEN InputError(FmtErr("Too many positional arguments provided", <<>>))
       ELSE pc' = "GetPointers" /\ res' = EXT_ARGS_NO_ERR

C7_PositionalCount == [][C7_Step]_vars

\* more values than positional declarations passed with variadic capture
C7_Witness ==
  /\ pc = "GetPointers"
  /\ Variadic
  /\ Declared >= 1
  /\ Len(inp.posArgs) > Declared

\* ------------------------------------------------------------------------
\* C8: when the validation reaches an occurrence, it is attributed to the
\* group of the first alias, in declaration order, that is equal to its
\* flag text (same length, same case, no prefix): that group and no other
\* is marked used when the occurrence is accepted; when no alias is equal
\* the call fails with "Ambiguous argument "<flag>" provided".  So a group
\* is marked used only by occurrences attributed to it: an occurrence of
\* an alias that two groups declare goes to the earlier group and never
\* marks the later one used.
\* ------------------------------------------------------------------------
AmbiguousMsg(text) == FmtErr("Ambiguous argument \"%.*s\" provided", <<text>>)

C8_Step ==
  AtValidation =>
    /\ CurOwner = 0 <=> InputError(AmbiguousMsg(Flag(Cur)))
    /\ pc' = "Validations" =>
         prs'.groups = [prs.groups EXCEPT ![GroupNo(CurOwner)].isUsed = TRUE]

C8_Used ==
  (SchemaOk /\ pc # "Lexing" /\ pc # "Parsing") =>
    \A k \in 1..Len(written) :
      IsGroup(k) => (prs.groups[GroupNo(k)].isUsed <=> Seen(k))

C8_Lookup == [][C8_Step]_vars /\ []C8_Used

\* -a was given for "[-a|-b] [-a[=v]]": the first group is used, the
\* second is not
C8_Witness ==
  /\ pc = "done"
  /\ res = EXT_ARGS_NO_ERR
  /\ Len(written) = 2
  /\ IsGroup(1)
  /\ IsGroup(2)
  /\ Info(2).aliases = <<FlagA>>
  /\ Seen(1)
  /\ Flag(1) = FlagA
  /\ prs.groups[1].isUsed
  /\ ~prs.groups[2].isUsed

\* ------------------------------------------------------------------------
\* C9: a call that succeeds reads one slot per declaration of the schema
\* text, in declaration order with positionals and groups interleaved as
\* declared, and one last slot with variadic capture; the k-th slot, when
\* not NULL, is written with the value of the k-th declaration.  A schema
\* for which the parser saved another number of declarations than the
\* text declares is a schema error.
\* ------------------------------------------------------------------------
SlotOf(k) ==
  IF IsPos(k) THEN [type |-> EXT_ARGS_ARG_POS, idx |-> PosNo(k) - 1]
  ELSE [type |-> EXT_ARGS_ARG_GROUP, idx |-> GroupNo(k) - 1]

ValueOf(k) ==
  IF IsPos(k) THEN C3_Value(k)
  ELSE IF Repeating(k) THEN AryVal(Values(k) \o <<NULL>>)
  ELSE IF Len(Occ(k)) = 0 THEN C2_Default(k)
  ELSE IF ~Info(k).hasAssign THEN BoolVal(TRUE)
  ELSE IF Values(k)[1] # NULL THEN StrVal(Values(k)[1])
  ELSE StrVal(ext_args_no_value)

C9_Slots ==
  /\ (pc # "Synopsis" /\ Len(prs.sequence) # DeclNo(Len(written))) =>
       res = EXT_ARGS_SCHEMA_ERR
  /\ Success =>
       /\ Len(ap) = Len(written) + (IF Variadic THEN 1 ELSE 0)
       /\ Len(out) = Len(ap)
       /\ prs.sequence = [k \in 1..Len(written) |-> SlotOf(k)]
       /\ \A k \in 1..Len(written) :
            IF Bound(k) THEN out[k] = ValueOf(k) ELSE out[k] = Unset
       /\ (Variadic /\ Bound(LastSlot)) => out[LastSlot].t = "char**"

\* a call with a group before a positional wrote both slots in that order
C9_Witness ==
  /\ Success
  /\ Len(written) = 2
  /\ IsGroup(1)
  /\ IsPos(2)
  /\ Bound(1)
  /\ Bound(2)
  /\ out[1] = ValueOf(1)
  /\ out[2] = StrVal(inp.posArgs[1])

\* ------------------------------------------------------------------------
\* C10: the call uses one more slot after the slots of the declarations
\* (variadic capture is enabled) if and only if the schema string ends in
\* an ellipsis that does not directly follow, white space aside, the
\* assignment "= NAME" of a flag group; an ellipsis there makes the group
\* repeatable.
\* ------------------------------------------------------------------------
ExtraSlot == Len(ap) = Len(written) + 1

C10_Trailing ==
  /\ SchemaOk => (prs.varPosArgsEnabled <=> Variadic)
  /\ Success => (ExtraSlot <=> Variadic)

\* as the claim is worded: if and only if the schema string ends in an
\* ellipsis
C10_Original ==
  /\ SchemaOk => (prs.varPosArgsEnabled <=> EndsInEllipsis(fmt))
  /\ Success => (ExtraSlot <=> EndsInEllipsis(fmt))

\* a call with the schema "-a=v ..." succeeded without the extra slot,
\* the group being repeatable
C10_Witness ==
  /\ Success
  /\ EndsInEllipsis(fmt)
  /\ EllipsisAfterAssign(fmt)
  /\ HasTrailingDots
  /\ ~ExtraSlot
  /\ ~prs.varPosArgsEnabled
  /\ prs.groups[Len(prs.groups)].isRepeating

\* ------------------------------------------------------------------------
\* C11

Terminator == <<"-", "-">>

HasTerminator == \E a \in 1..Len(argv) : argv[a] = Terminator

FirstTerminator == CHOOSE a \in 1..Len(argv) :
  argv[a] = Terminator /\ \A b \in 1..(a - 1) : argv[b] # Terminator

\* the raw arguments before the first terminator
BeforeTerminator == SubSeq(argv, 1, FirstTerminator - 1)

\* the step the call takes is the step the same call takes on the raw
\* arguments before the terminator alone, in every stage that reads the
\* vector
C11_Step ==
  HasTerminator =>
    /\ pc = "Lexing" => LexingDone(Lex(BeforeTerminator))
    /\ pc = "Parsing" =>
         ParsingDone(ParseLoop(BeforeTerminator, inp.tokens, 0, <<>>, <<>>))
    /\ (pc = "Validations" /\ i < Len(inp.floats)) =>
         ValidationDone(ValidateFloat(BeforeTerminator, prs, inp.floats[i + 1]))
    /\ pc = "Fill" =>
         FillUnused(FillFloats(BeforeTerminator, prs, inp.floats, 1, prs.groups, out))

\* no token, occurrence, positional value or bound value points at or
\* after the terminator
C11_Unread ==
  HasTerminator =>
    /\ \A t \in 1..Len(inp.tokens) :
         inp.tokens[t].str # NULL => inp.tokens[t].str.arg < FirstTerminator
    /\ \A t \in 1..Len(inp.floats) :
         /\ inp.floats[t].str.arg < FirstTerminator
         /\ inp.floats[t].assignVal # NULL =>
              inp.floats[t].assignVal.arg < FirstTerminator
    /\ \A t \in 1..Len(inp.posArgs) : inp.posArgs[t].arg < FirstTerminator

\* C11: terminator truncation.  For a vector A without terminator followed
\* by "--" and further raw arguments B, every stage of the call that
\* reads the vector (lexing, parsing, validation of an occurrence,
\* filling) takes the step it takes on A alone, so the result kind, the
\* message and the bound values are those of A; and nothing of B is
\* tokenized: every pointer held by the call points before the "--".
C11_Truncation == [][C11_Step]_vars /\ []C11_Unread

\* a successful call with a flag before the terminator and a raw argument
\* after it that would be a flag
C11_Witness ==
  /\ Success
  /\ HasTerminator
  /\ FirstTerminator = 2
  /\ Len(argv) = 3
  /\ argv[1] = <<"-", "a">>
  /\ argv[3] = <<"-", "a">>
  /\ Len(inp.floats) = 1
  /\ \E k \in 1..Len(out) : out[k] = StrVal(ext_args_no_value)

\* ------------------------------------------------------------------------
\* C12

\* the number of dashes a raw argument begins with
Dashes(a) == SkipChars(a, 1, {"-"}) - 1

\* a raw argument of dashes and then a letter
FlagShaped(a) == Dashes(a) >= 1 /\ At(a, Dashes(a) + 1) \in NameStart

\* the raw arguments that are tokenized when only "--" is the terminator
Tokenized ==
  IF HasTerminator THEN 1..(FirstTerminator - 1) ELSE 1..Len(argv)

\* C12: a raw argument is the terminator only when it is exactly "--".
\* After a lexing without error, every raw argument before the first
\* "--" that is neither of the shape of a flag nor begins with "=" has
\* become a plain value token of the whole raw argument.
C12_OnlyTwoDashes ==
  pc = "Parsing" =>
    \A a \in Tokenized :
      (~FlagShaped(argv[a]) /\ At(argv[a], 1) # "=") =>
        \E t \in 1..Len(inp.tokens) :
          inp.tokens[t] = UTok(EXT_ARGS_UTOK_VAL, Ptr(a, 0), 0)

\* ------------------------------------------------------------------------
\* C13

\* The length of the longest prefix of the raw argument a, of the shape of
\* a flag, that is dashes and a name: the letters, digits, "_" and "-"
\* after the dashes, without the dashes they end in.
FlagPrefix(a) == SkipBack(a, SkipChars(a, Dashes(a) + 1, NameChars) - 1, {"-"})

\* the character after that prefix
AfterFlag(a) == At(a, FlagPrefix(a) + 1)

FlagsWithText ==
  {a \in 1..Len(argv) : FlagShaped(argv[a]) /\ AfterFlag(argv[a]) \notin {NUL, "="}}

FirstFlagWithText == CHOOSE a \in FlagsWithText : \A b \in FlagsWithText : a <= b

RawMsg(a) == FmtErr("Ambiguous argument \"%s\"", <<argv[a]>>)

HasToken(tok) == \E t \in 1..Len(inp'.tokens) : inp'.tokens[t] = tok

FlagToken(a) == UTok(EXT_ARGS_UTOK_FLOAT, Ptr(a, 0), FlagPrefix(argv[a]))

C13_Step ==
  pc = "Lexing" =>
    IF FlagsWithText # {}
    THEN InputError(RawMsg(FirstFlagWithText))
    ELSE /\ pc' = "Parsing"
         /\ \A a \in 1..Len(argv) :
              FlagShaped(argv[a]) =>
                /\ HasToken(FlagToken(a))
                /\ AfterFlag(argv[a]) = "=" =>
                     /\ HasToken(UTok(EXT_ARGS_UTOK_EQL, Ptr(a, FlagPrefix(argv[a])), 0))
                     /\ At(argv[a], FlagPrefix(argv[a]) + 2) # NUL =>
                          HasToken(UTok(EXT_ARGS_UTOK_VAL, Ptr(a, FlagPrefix(argv[a]) + 1), 0))

\* C13: the tokenizing of a flag.  The lexing of a vector fails with
\* 'Ambiguous argument "<raw argument>"' for the first raw argument whose
\* longest prefix of dashes and a name is followed by a character other
\* than "="; otherwise it yields, for every raw argument of the shape of a
\* flag, the flag token of that prefix, and after "=" the value token of
\* the remainder.
C13_FlagTokens == [][C13_Step]_vars

\* ------------------------------------------------------------------------
\* C14

\* some optional positional is declared before a mandatory one
OptionalBeforeMandatory ==
  \E j, k \in 1..Len(written) :
    /\ j < k
    /\ IsPos(j) /\ Info(j).optional
    /\ IsPos(k) /\ ~Info(k).optional

ChainedMsg ==
  FmtErr("All optional non-flag arguments must be chained on the schema's right side", <<>>)

C14_Step ==
  pc = "SchemaValidation" =>
    IF OptionalBeforeMandatory
    THEN pc' = "done" /\ res' = EXT_ARGS_SCHEMA_ERR /\ oerr' = ChainedMsg
    ELSE pc' = "Lexing" /\ res' = EXT_ARGS_NO_ERR /\ oerr' = Unset

C14_OnlyThen == oerr = ChainedMsg => (res = EXT_ARGS_SCHEMA_ERR /\ OptionalBeforeMandatory)

\* C14: a schema that has passed the parser and declares an optional
\* positional before a mandatory one, next to it or with groups or other
\* positionals between them, is rejected with the schema error "All
\* optional non-flag arguments must be chained on the schema's right
\* side", whatever the argument vector; a schema without such a pair
\* passes the validation, and the message is given for no other reason.
C14_Chained == [][C14_Step]_vars /\ []C14_OnlyThen

\* the rejection of a schema with a group between the two positionals, in
\* a call whose flag no group declares
C14_Witness ==
  /\ pc = "done"
  /\ res = EXT_ARGS_SCHEMA_ERR
  /\ oerr = ChainedMsg
  /\ written = <<DeclOptY, DeclOptBRep, DeclX>>
  /\ argv = << <<"-", "a">> >>

\* ------------------------------------------------------------------------
\* C15

NoDeclaration == written = <<>>

AllPlain == \A a \in 1..Len(argv) : IsPlain(argv[a])

SchemaBroken == EXT_ARGS_Synopsis(NewParser(fmt)).jmp # 0

\* the flag name a raw argument begins with
RawFlag(a) == EXT_ARGS_ArgFloat([src |-> argv[a], str |-> 1])
IsRawFlag(a) == RawFlag(a).ok
RawFlagLen(a) == RawFlag(a).prs.str - 1
RawFlagText(a) == SubSeq(argv[a], 1, RawFlagLen(a))
RawAfter(a) == At(argv[a], RawFlagLen(a) + 1)

\* tokenizing: a flag with text after its name
BadRaws == {a \in 1..Len(argv) : IsRawFlag(a) /\ RawAfter(a) \notin {NUL, "="}}

RawPlain(a) == ~IsRawFlag(a) /\ At(argv[a], 1) # "="

RawEmptyValue(a) ==
  IsRawFlag(a) /\ RawAfter(a) = "=" /\ At(argv[a], RawFlagLen(a) + 2) = NUL

\* parsing: a flag with "=" and nothing after it, and no plain value next
NoValues ==
  {a \in 1..Len(argv) : RawEmptyValue(a) /\ (a = Len(argv) \/ ~RawPlain(a + 1))}

NoValueMsg(a) == FmtErr("A value expected \"%s\"", <<argv[a]>>)

\* a plain raw argument taken as the value of the flag before it
Consumed(a) == a > 1 /\ RawPlain(a) /\ RawEmptyValue(a - 1)

RawOwner(a) == Owner(RawFlagText(a))

RawDuplicate(a) ==
  /\ RawOwner(a) # 0
  /\ ~Repeating(RawOwner(a))
  /\ \E b \in 1..(a - 1) : IsRawFlag(b) /\ RawOwner(b) = RawOwner(a)

\* validation of an occurrence: the message for the flag of the raw
\* argument a, NULL when it breaks no rule
RawVerdict(a) ==
  IF RawOwner(a) = 0 THEN AmbiguousMsg(RawFlagText(a))
  ELSE IF RawDuplicate(a) THEN SameMsg(RawFlagText(a))
  ELSE IF /\ Info(RawOwner(a)).hasAssign
          /\ ~Info(RawOwner(a)).valueOptional
          /\ RawAfter(a) # "="
  THEN RequiresMsg(RawFlagText(a))
  ELSE IF ~Info(RawOwner(a)).hasAssign /\ RawAfter(a) = "="
  THEN NotRequiresMsg(RawFlagText(a))
  ELSE NULL

BadFlags == {a \in 1..Len(argv) : IsRawFlag(a) /\ RawVerdict(a) # NULL}

\* the mandatory groups no raw argument gives
NotGiven ==
  {k \in 1..Len(written) :
     /\ IsGroup(k)
     /\ ~Info(k).optional
     /\ \A a \in 1..Len(argv) : IsRawFlag(a) => RawOwner(a) # k}

PlainCount == Cardinality({a \in 1..Len(argv) : RawPlain(a) /\ ~Consumed(a)})

First(S) == CHOOSE a \in S : \A b \in S : a <= b

Failed_With(msg) == res = EXT_ARGS_INPUT_ERR /\ oerr = msg

SchemaMsgs ==
  {"Schema lexing error, starting from \"%s\"",
   "Schema parsing error. Expected %s but received %s, starting from \"%s\""}

C16_Diagnostic ==
  pc = "done" =>
    IF SchemaBroken
    THEN res = EXT_ARGS_SCHEMA_ERR /\ oerr # Unset /\ oerr.fmt \in SchemaMsgs
    ELSE IF OptionalBeforeMandatory
    THEN res = EXT_ARGS_SCHEMA_ERR /\ oerr = ChainedMsg
    ELSE IF BadRaws # {} THEN Failed_With(RawMsg(First(BadRaws)))
    ELSE IF NoValues # {} THEN Failed_With(NoValueMsg(First(NoValues)))
    ELSE IF BadFlags # {} THEN Failed_With(RawVerdict(First(BadFlags)))
    ELSE IF NotGiven # {} THEN Failed_With(MissingMsg(First(NotGiven)))
    ELSE IF PlainCount < Mandatory
    THEN Failed_With(FmtErr("Not enough positional arguments provided", <<>>))
    ELSE IF PlainCount > Declared /\ ~Variadic
    THEN Failed_With(FmtErr("Too many positional arguments provided", <<>>))
    ELSE res = EXT_ARGS_NO_ERR /\ oerr = Unset

\* C16: diagnostic precedence.  A call ends with success and no message
\* or with one result kind and one message, and the message is that of
\* the first rule the call breaks in the order: schema lexing and
\* grammar, schema validation, tokenizing of any raw argument, parsing,
\* validation of the flags in input order, mandatory groups, number of
\* positional values.  No stage runs after a failure: a call that has an
\* error set is at its end.
C16_Precedence ==
  /\ C16_Diagnostic
  /\ res # EXT_ARGS_NO_ERR => pc = "done"
  /\ (res = EXT_ARGS_NO_ERR) <=> (oerr = Unset)

\* A call with "-a=v" and the vector "-a=", "-a.": the second raw
\* argument fails the tokenizing and shadows the missing value of the
\* first.
C16_Witness ==
  /\ pc = "done"
  /\ written = <<DeclAVal>>
  /\ argv = << <<"-", "a", "=">>, <<"-", "a", ".">> >>
  /\ NoValues = {1}
  /\ BadRaws = {2}
  /\ oerr = RawMsg(2)
  /\ inp.floats = <<>>

\* ------------------------------------------------------------------------
\* C17.  The same call with the address of a variable in every slot.

FullPointers == [k \in 1..Len(ap) |-> VarPtr(k)]

FullParser == GetPointers(prs, FullPointers, 1)

FullFloats ==
  FillFloats(argv, FullParser, inp.floats, 1, FullParser.groups,
             [k \in 1..Len(ap) |-> Unset])

FullGroups == FillGroups(FullFloats.groups, 1, FullFloats.out)

FullOut == FillPositionals(FullParser, inp, FullGroups.out)

C17_Step ==
  pc = "Fill" =>
    /\ pc' = "done"
    /\ res' = EXT_ARGS_NO_ERR
    /\ oerr' = Unset
    /\ \A k \in 1..Len(ap) :
         out'[k] = IF ap[k] = NULL THEN Unset ELSE FullOut[k]

C17_Validated ==
  /\ pc \notin {"Fill", "done"} => ap = <<>>
  /\ res # EXT_ARGS_NO_ERR => ap = <<>>

\* C17: null slots.  The slots are read only when every validation has
\* passed, so a NULL slot changes neither the result kind nor the
\* message; and the binding with a NULL slot writes to every other slot
\* the value the same call writes to it with no slot NULL, and writes
\* nothing for the NULL slot, be it the slot of a positional, of a group
\* or of the variadic capture.
C17_NullSlots == [][C17_Step]_vars /\ []C17_Validated

\* a call with "x ..." and two values, NULL for the variadic capture: the
\* first slot has its value, nothing is written for the second
C17_Witness ==
  /\ Success
  /\ written = <<DeclX>>
  /\ Variadic
  /\ Len(inp.posArgs) = 2
  /\ Len(ap) = 2
  /\ ap[2] = NULL
  /\ out[1] = StrVal(Ptr(1, 0))
  /\ out[2] = Unset

\* ------------------------------------------------------------------------
\* C18

C18_Inputs == fmt' = fmt /\ argv' = argv

C18_Untouched ==
  res \in {EXT_ARGS_SCHEMA_ERR, EXT_ARGS_INPUT_ERR} => (ap = <<>> /\ out = <<>>)

\* C18: the frame of a call.  No step of the call changes the schema
\* string or the argument vector; and a call that ends with a schema
\* error or an input error has read no slot and written no variable: the
\* slots are read, and the variables written, only after the last
\* validation has passed.
C18_Frame == [][C18_Inputs]_vars /\ []C18_Untouched

\* a call that failed in the last validation, with slots declared and
\* none read
C18_Witness ==
  /\ pc = "done"
  /\ res = EXT_ARGS_INPUT_ERR
  /\ oerr = FmtErr("Too many positional arguments provided", <<>>)
  /\ Len(prs.sequence) >= 1
  /\ fmt = JoinDecls(written)
  /\ Len(argv) = 2
  /\ ap = <<>>
  /\ out = <<>>

\* ------------------------------------------------------------------------
\* C19

\* the group the parser saved for the declaration k
GroupOf(k) == prs.groups[GroupNo(k)]

\* C19: in the model of an accepted schema every repeatable group takes
\* a value and its value is not optional; a group is repeatable exactly
\* when an ellipsis follows its "= NAME", and takes an optional value
\* exactly when it is written with "[= NAME]", which never makes it
\* repeatable; a schema with "-a[=v...]" is a schema error.
C19_Repeatable ==
  /\ SchemaOk =>
       /\ \A g \in 1..Len(prs.groups) :
            prs.groups[g].isRepeating =>
              (prs.groups[g].hasAssign /\ ~prs.groups[g].isAssignOptional)
       /\ \A k \in 1..Len(written) :
            IsGroup(k) =>
              /\ GroupOf(k).isRepeating <=> Repeating(k)
              /\ GroupOf(k).hasAssign <=> Info(k).hasAssign
              /\ GroupOf(k).isAssignOptional <=> Info(k).valueOptional
  /\ (pc # "Synopsis" /\ \E k \in 1..Len(written) : written[k] = DeclOptValRep) =>
       res = EXT_ARGS_SCHEMA_ERR

\* the schema "-a[=v] -a=v ..." was accepted: the first group takes an
\* optional value and is not repeatable, the second is repeatable
C19_Witness ==
  /\ SchemaOk
  /\ written = <<DeclAOptVal, DeclAVal>>
  /\ HasTrailingDots
  /\ prs.groups[1].isAssignOptional
  /\ ~prs.groups[1].isRepeating
  /\ prs.groups[2].isRepeating
  /\ prs.groups[2].hasAssign

\* ------------------------------------------------------------------------
\* C20

\* the declarations of the schema text that are not well formed
Malformed == {k \in 1..Len(written) : ~IsPos(k) /\ ~IsGroup(k)}

FirstMalformed == First(Malformed)

\* the position in the schema text of the last character of the
\* declaration k (0 for k = 0)
EndOfDecl(k) == Len(JoinDecls(SubSeq(written, 1, k)))

\* the position of the first character of the declaration k
StartOfDecl(k) == EndOfDecl(k - 1) + (IF k > 1 THEN 2 ELSE 1)

\* The tokenizer fails before the parser does: the first malformed
\* declaration does not begin with a letter, or is an open bracket whose
\* closing bracket is looked for in such text.
LexingFirst ==
  \/ written[FirstMalformed] = DeclDigit
  \/ /\ written[FirstMalformed] = DeclOpenX
     /\ FirstMalformed < Len(written)
     /\ written[FirstMalformed + 1] = DeclDigit

GrammarError == Malformed # {} /\ ~LexingFirst

\* the number of characters of the malformed declaration d that are a
\* complete declaration or the ellipsis
CompletePart(d) ==
  CASE d = DeclOptValRep -> 2
    [] d = DeclDotsA -> 3
    [] OTHER -> 0

\* the position after the last completely parsed declaration, or after
\* the ellipsis
RestStart ==
  IF CompletePart(written[FirstMalformed]) = 0
  THEN EndOfDecl(FirstMalformed - 1) + 1
  ELSE StartOfDecl(FirstMalformed) + CompletePart(written[FirstMalformed])

\* the kind of the first token of the rest
RestKind ==
  IF written[FirstMalformed] = DeclDotsA THEN EXT_ARGS_TOK_NAME ELSE EXT_ARGS_TOK_LBRAK

\* a tokenizer at the position p of the schema text
Rollback_To(p) == EXT_ARGS_Rollback(NewParser(fmt), p)

GrammarFmt == "Schema parsing error. Expected %s but received %s, starting from \"%s\""

GrammarMsg ==
  FmtErr(GrammarFmt,
         <<EXT_ARGS_TokTypeToName(EXT_ARGS_TOK_EOI),
           EXT_ARGS_TokTypeToName(RestKind),
           StrFrom(fmt, RestStart)>>)

IsEqValue(s) == Len(s) >= 2 /\ s[1] = "="

\* the length of the flag name the raw argument s begins with, 0 when it
\* begins with none
FlagLen(s) ==
  LET f == EXT_ARGS_ArgFloat([src |-> s, str |-> 1])
  IN IF f.ok THEN f.prs.str - 1 ELSE 0

\* a raw argument that is a flag name and nothing else
IsBareFlag(s) == FlagLen(s) >= 1 /\ FlagLen(s) = Len(s)

\* the raw arguments "=value" that do not directly follow a bare flag
Misplaced ==
  {a \in 1..Len(argv) :
     IsEqValue(argv[a]) /\ ~(a > 1 /\ IsBareFlag(argv[a - 1]))}

\* the vector with every bare flag and the "=value" after it written as
\* the one raw argument "flag=value"
RECURSIVE Joined(_)
Joined(av) ==
  IF Len(av) = 0 THEN <<>>
  ELSE IF Len(av) >= 2 /\ IsBareFlag(av[1]) /\ IsEqValue(av[2])
  THEN <<av[1] \o av[2]>> \o Joined(SubSeq(av, 3, Len(av)))
  ELSE <<av[1]>> \o Joined(Tail(av))

\* what a pointer of the call stands for: NULL, the sentinel, or the
\* text it points to in the vector av
TextOf(av, p) ==
  IF p = NULL \/ p = ext_args_no_value THEN p ELSE [chars |-> CStr(av, p)]

\* the parsed input of the vector av, by the texts of its pointers
ParsedOn(av) == ParseLoop(av, Lex(av).tokens, 0, <<>>, <<>>)

TextsOf(av, r) ==
  [floats |-> [o \in 1..Len(r.floats) |->
                 [flag |-> Take(CStr(av, r.floats[o].str), r.floats[o].len),
                  value |-> TextOf(av, r.floats[o].assignVal)]],
   posArgs |-> [n \in 1..Len(r.posArgs) |-> TextOf(av, r.posArgs[n])]]

\* a written value, by the texts of its pointers
ValueText(av, val) ==
  IF val.t = "char*" THEN [t |-> val.t, v |-> TextOf(av, val.v)]
  ELSE IF val.t = "char**"
  THEN [t |-> val.t, v |-> [c \in 1..Len(val.v) |-> TextOf(av, val.v[c])]]
  ELSE val

OutTexts(av, o) == [k \in 1..Len(o) |-> ValueText(av, o[k])]

\* the binding of the call on the joined vector
JoinedFloats ==
  FillFloats(Joined(argv), prs, ParsedOn(Joined(argv)).floats, 1, prs.groups, out)

JoinedGroups == FillGroups(JoinedFloats.groups, 1, JoinedFloats.out)

JoinedOut ==
  FillPositionals(prs, [tokens |-> <<>>,
                        floats |-> ParsedOn(Joined(argv)).floats,
                        posArgs |-> ParsedOn(Joined(argv)).posArgs],
                  JoinedGroups.out)

ParseMsgs == {"Unexpected input \"%s\"", "A value expected \"%s\""}

\* the parsing was passed
Parsed == SchemaOk /\ pc \notin {"Lexing", "Parsing"} /\ ~(pc = "done" /\ inp.tokens = <<>>)

C21_Placed ==
  /\ (SchemaOk /\ Misplaced # {} /\ pc \notin {"Lexing", "Parsing"}) =>
       /\ pc = "done"
       /\ res = EXT_ARGS_INPUT_ERR
       /\ oerr.fmt \in ParseMsgs
  /\ \A n \in 1..Len(inp.posArgs) : ~IsEqValue(argv[inp.posArgs[n].arg])
  /\ (Parsed /\ Misplaced = {} /\ ~(res = EXT_ARGS_INPUT_ERR /\ oerr.fmt \in ParseMsgs)) =>
       TextsOf(argv, inp) = TextsOf(Joined(argv), ParsedOn(Joined(argv)))

C21_Step ==
  /\ AtValidation =>
       ValidationDone(ValidateFloat(Joined(argv), prs, ParsedOn(Joined(argv)).floats[i + 1]))
  /\ pc = "Fill" => OutTexts(argv, out') = OutTexts(Joined(argv), JoinedOut)

\* C21: a raw argument "=value" is never bound as a positional value.
\* Directly after a bare flag its value becomes the value of that flag
\* as if "flag=value" had been given: the parsed input, the validation of
\* every occurrence and every written value are, text for text, those of
\* the vector with the two raw arguments joined.  In every other place,
\* at the start, after a plain value, after a flag with a value, after a
\* flag with "=" and no value, the call ends in the parsing with an input
\* error.
C21_EqualsValue == [][C21_Step]_vars /\ []C21_Placed

\* the call with "-a=v" and the vector "-a", "=1" bound the text "1" of
\* the second raw argument
C21_Witness ==
  /\ Success
  /\ written = <<DeclAVal>>
  /\ argv = << <<"-", "a">>, <<"=", "1">> >>
  /\ Joined(argv) = << <<"-", "a", "=", "1">> >>
  /\ Bound(1)
  /\ out[1] = StrVal(Ptr(2, 1))
  /\ ValueText(argv, out[1]).v = [chars |-> <<"1">>]

\* ------------------------------------------------------------------------
\* C22

\* an ellipsis begins at the position q of the schema string
EllipsisAt(q) ==
  /\ q + 2 <= Len(fmt)
  /\ \A d \in 0..2 : fmt[q + d] = "."
  /\ q > 1 => fmt[q - 1] # "."

\* the token before the position q, white space aside, is the NAME of an
\* assignment "= NAME"
AfterAssign(q) ==
  LET e == SkipBack(fmt, q - 1, Spaces)
  IN /\ e >= 1
     /\ fmt[e] \in NameChars
     /\ BeforeName(fmt, e) >= 1
     /\ fmt[BeforeName(fmt, e)] = "="

GroupEllipses == {q \in 1..Len(fmt) : EllipsisAt(q) /\ AfterAssign(q)}

OtherEllipses == {q \in 1..Len(fmt) : EllipsisAt(q) /\ ~AfterAssign(q)}

\* the ellipsis at q is the next token after the text of the declaration k
\* or lies in it
EllipsisOf(k, q) == q >= StartOfDecl(k) /\ q <= EndOfDecl(k) + 2

\* C22: ellipsis precedence.  In an accepted schema an ellipsis that is
\* the next token, white space aside, after the "= NAME" of a group makes
\* that group repeatable and never enables the variadic capture: the
\* repeatable groups are the groups with such an ellipsis, and the
\* capture is enabled, and the call reads the extra slot, exactly when the
\* schema has an ellipsis that follows no assignment.  So "-a=v ..." has
\* a repeatable group and no extra slot, and the capture after such a
\* group takes a second ellipsis.
C22_Precedence ==
  /\ SchemaOk =>
       /\ \A k \in 1..Len(written) :
            IsGroup(k) =>
              (GroupOf(k).isRepeating <=> \E q \in GroupEllipses : EllipsisOf(k, q))
       /\ Cardinality({g \in 1..Len(prs.groups) : prs.groups[g].isRepeating})
            = Cardinality(GroupEllipses)
       /\ prs.varPosArgsEnabled <=> OtherEllipses # {}
  /\ Success => Len(ap) = Len(written) + (IF OtherEllipses # {} THEN 1 ELSE 0)

\* the call with "-a=v ..." and -a=1 twice succeeded with one slot, bound
\* to both values
C22_Witness ==
  /\ Success
  /\ written = <<DeclAVal>>
  /\ fmt = DeclAVal \o <<" ">> \o Ellipsis
  /\ GroupEllipses = {6}
  /\ OtherEllipses = {}
  /\ prs.groups[1].isRepeating
  /\ ~prs.varPosArgsEnabled
  /\ Len(ap) = 1
  /\ Bound(1)
  /\ out[1] = AryVal(<<Ptr(1, 3), Ptr(2, 3), NULL>>)

\* ------------------------------------------------------------------------
\* C23.  The call on another vector av, with the schema and the slots of
\* this call: the input side from the lexing to the binding.

ParsedSchema == EXT_ARGS_Synopsis(NewParser(fmt))

\* the validation loop over the occurrences, from the o-th on
RECURSIVE ValidateAll(_, _, _, _)
ValidateAll(av, p, floats, o) ==
  IF o > Len(floats) THEN [groups |-> p.groups, err |-> NULL]
  ELSE LET r == ValidateFloat(av, p, floats[o])
       IN IF r.err # NULL THEN r
          ELSE ValidateAll(av, [p EXCEPT !.groups = r.groups], floats, o + 1)

\* the message of the input error of the call on av with the parsed
\* schema ps, NULL when it has none
InputErrOn(ps, av) ==
  LET lx == Lex(av)
      pr == ParseLoop(av, lx.tokens, 0, <<>>, <<>>)
      vd == ValidateAll(av, ps, pr.floats, 1)
      ck == [ps EXCEPT !.groups = vd.groups]
      pv == CheckProvided(ck, 1)
  IN IF lx.err # NULL THEN lx.err
     ELSE IF pr.err # NULL THEN pr.err
     ELSE IF vd.err # NULL THEN vd.err
     ELSE IF pv # NULL THEN pv
     ELSE CheckPositionals(ck, [tokens |-> lx.tokens, floats |-> pr.floats,
                                posArgs |-> pr.posArgs])

\* the variables after the call on av, which has no input error
BoundOn(ps, av) ==
  LET lx == Lex(av)
      pr == ParseLoop(av, lx.tokens, 0, <<>>, <<>>)
      vd == ValidateAll(av, ps, pr.floats, 1)
      p == GetPointers([ps EXCEPT !.groups = vd.groups], ap, 1)
      f == FillFloats(av, p, pr.floats, 1, p.groups, [k \in 1..Len(ap) |-> Unset])
      g == FillGroups(f.groups, 1, f.out)
  IN FillPositionals(p, [tokens |-> lx.tokens, floats |-> pr.floats,
                         posArgs |-> pr.posArgs], g.out)

\* the group a raw argument that is a flag is attributed to
OwnerOfRaw(s) == Owner(SubSeq(s, 1, FlagLen(s)))

FlagsOf(k) == SelectSeq(argv, LAMBDA s : FlagLen(s) >= 1 /\ OwnerOfRaw(s) = k)

RECURSIVE FlagsFrom(_)
FlagsFrom(k) == IF k > Len(written) THEN <<>> ELSE FlagsOf(k) \o FlagsFrom(k + 1)

PlainsOf == SelectSeq(argv, LAMBDA s : FlagLen(s) = 0)

\* The vector with every flag moved before the plain values, the flags
\* of a group together: the plain values keep their order, the flags of
\* every group keep theirs.
FlagsFirst == FlagsFrom(0) \o PlainsOf

\* and with every flag moved behind the plain values
FlagsLast == PlainsOf \o FlagsFrom(0)

\* a vector without terminator and without "=" at the start of a raw
\* argument, whose flags are bare or have a value that is not empty
Movable ==
  \A a \in 1..Len(argv) :
    /\ argv[a] # Terminator
    /\ At(argv[a], 1) # "="
    /\ FlagLen(argv[a]) >= 1 =>
         \/ FlagLen(argv[a]) = Len(argv[a])
         \/ /\ At(argv[a], FlagLen(argv[a]) + 1) = "="
            /\ At(argv[a], FlagLen(argv[a]) + 2) # NUL

====
